---- MODULE Spec2Model ----
(***************************************************************************)
(* Model of the Gemini content adapter of youtube-analyzer-openwebui:      *)
(* the two pipe variants src/gemini_native_function.py ("function") and    *)
(* src/gemini_native_complete.py ("complete").                             *)
(*                                                                         *)
(* Python strings are TLA+ strings; TLC evaluates Len, SubSeq and \o on    *)
(* them, so the regular expressions, str.replace, str.strip and str.split  *)
(* of the source are computed character by character.                      *)
(***************************************************************************)
EXTENDS Naturals, Sequences, FiniteSets, TLC

VARIABLES
    variant,          \* which pipe file runs: "function" or "complete"
    valves,           \* Pipe.valves
    body,             \* the request body handed to pipe
    pc,               \* position of the running call
    system_message,   \* pipe local: first result of pop_system_message
    messages,         \* pipe local: second result of pop_system_message
    idx,              \* pipe local: number of messages the loop has taken
    role,             \* pipe local: the converted role of the current message
    content,          \* pipe local: what the formatter returned
    gemini_contents,  \* pipe local: the vendor turns built so far
    transport,        \* which transport pipe handed the request to
    result,           \* what pipe returned
    u_in,             \* unit call: the argument
    u_out,            \* unit call: the returned value
    posted,           \* how many times session.post was called
    response,         \* what the upstream does with the request of this call
    wire,             \* streaming: the bytes of the body not yet delivered
    buffer,           \* _handle_streaming local: the unterminated tail
    chunks,           \* what the async generator has yielded so far
    emitter,          \* whether the host passed an __event_emitter__
    events,           \* the status events the emitter was called with
    requests,         \* the requests session.post was called with
    tool_fn,          \* src/tool.py: the method of Tools the host called
    youtube_url,      \* its argument
    video_id,         \* local: what extract_youtube_video_id returned
    attempt,          \* get_youtube_metadata local: the loop variable
    metadata,         \* what get_youtube_metadata returned
    direct,           \* what the model call of analyze_video_with_gemini did
    gemini_analysis,  \* summarize_youtube_video local
    transcript,       \* summarize_youtube_video local
    thumbnail_base64, \* summarize_youtube_video local
    summary,          \* summarize_youtube_video local
    calls,            \* the calls made to pytube, the model and the web
    tool_result       \* what the method returned

vars == <<variant, valves, body, pc, system_message, messages, idx, role,
          content, gemini_contents, transport, result, u_in, u_out,
          posted, response, wire, buffer, chunks, emitter, events, requests,
          tool_fn, youtube_url, video_id, attempt, metadata, direct,
          gemini_analysis, transcript, thumbnail_base64, summary, calls,
          tool_result>>

toolVars == <<tool_fn, youtube_url, video_id, attempt, metadata, direct,
              gemini_analysis, transcript, thumbnail_base64, summary, calls,
              tool_result>>

netVars == <<posted, response, wire, buffer, chunks, emitter, requests>>

pipeVars == <<body, system_message, messages, idx, role, content,
              gemini_contents, transport, result, events, netVars>>

unitVars == <<u_in, u_out>>

(***************************************************************************)
(* Bounds of the model.                                                    *)
(***************************************************************************)
MaxMsgs == 2      \* messages in a request body
MaxSegs == 3      \* text segments concatenated into one string content
MaxItems == 2     \* items in one multimodal content

(***************************************************************************)
(* Python str primitives.                                                  *)
(***************************************************************************)
CharAt(s, i) == SubSeq(s, i, i)

\* s.startswith(p)
StartsWith(s, p) == Len(s) >= Len(p) /\ SubSeq(s, 1, Len(p)) = p

\* the least element of a non-empty set of indices
Least(S) == CHOOSE x \in S : \A y \in S : x <= y
Greatest(S) == CHOOSE x \in S : \A y \in S : x >= y

\* s.find(sub, from): the first index >= from where sub occurs, 0 when none
FindFrom(s, sub, from) ==
    LET hits == {i \in from..(Len(s) - Len(sub) + 1) : SubSeq(s, i, i + Len(sub) - 1) = sub}
    IN IF hits = {} THEN 0 ELSE Least(hits)

\* sub in s
Contains(s, sub) == FindFrom(s, sub, 1) > 0

\* s.replace(old, ""): every non-overlapping occurrence, left to right
RECURSIVE ReplaceFrom(_, _, _)
ReplaceFrom(s, old, from) ==
    LET p == IF old = "" THEN 0 ELSE FindFrom(s, old, from)
    IN IF p = 0 THEN SubSeq(s, from, Len(s))
       ELSE SubSeq(s, from, p - 1) \o ReplaceFrom(s, old, p + Len(old))

Remove(s, old) == ReplaceFrom(s, old, 1)

Whitespace == {" ", "\t", "\n", "\r"}

\* s.strip(): from the first to the last character that is not whitespace
Strip(s) ==
    LET solid == {i \in 1..Len(s) : SubSeq(s, i, i) \notin Whitespace}
    IN IF solid = {} THEN "" ELSE SubSeq(s, Least(solid), Greatest(solid))

\* s.split(sep)[0] for a one-character sep
BeforeFirst(s, sep) ==
    LET p == FindFrom(s, sep, 1) IN IF p = 0 THEN s ELSE SubSeq(s, 1, p - 1)

\* s.split(sep)[1] for a one-character sep; only called when sep is in s
SecondField(s, sep) ==
    LET p == FindFrom(s, sep, 1)
        rest == SubSeq(s, p + 1, Len(s))
    IN BeforeFirst(rest, sep)

(***************************************************************************)
(* Pipe._detect_youtube_urls: re.findall of four patterns, in order.       *)
(***************************************************************************)
Lower == {"a","b","c","d","e","f","g","h","i","j","k","l","m",
          "n","o","p","q","r","s","t","u","v","w","x","y","z"}
Upper == {"A","B","C","D","E","F","G","H","I","J","K","L","M",
          "N","O","P","Q","R","S","T","U","V","W","X","Y","Z"}
Digit == {"0","1","2","3","4","5","6","7","8","9"}

\* the character class [\w-]
IdChars == Lower \cup Upper \cup Digit \cup {"_", "-"}

\* the literal lit occurs in s at index i
At(s, i, lit) ==
    i + Len(lit) - 1 <= Len(s) /\ SubSeq(s, i, i + Len(lit) - 1) = lit

\* the length of the longest run of [\w-] characters of s starting at i
IdRun(s, i) ==
    LET stops == {j \in i..Len(s) : CharAt(s, j) \notin IdChars}
    IN IF stops = {} THEN Len(s) + 1 - i ELSE Least(stops) - i

\* the four patterns: https?://(?:www\.)?<host>[\w-]+, www optional or absent
youtube_patterns ==
    << [www |-> TRUE,  host |-> "youtube.com/watch?v="],
       [www |-> FALSE, host |-> "youtu.be/"],
       [www |-> TRUE,  host |-> "youtube.com/embed/"],
       [www |-> TRUE,  host |-> "youtube.com/v/"] >>

\* the length of the match of pattern pat at index i of s, 0 when none
MatchLen(s, i, pat) ==
    IF ~At(s, i, "http") THEN 0
    ELSE LET a == IF At(s, i + 4, "s") THEN i + 5 ELSE i + 4
         IN IF ~At(s, a, "://") THEN 0
            ELSE LET b == IF pat.www /\ At(s, a + 3, "www.") THEN a + 7 ELSE a + 3
                 IN IF ~At(s, b, pat.host) THEN 0
                    ELSE LET c == b + Len(pat.host)
                             n == IdRun(s, c)
                         IN IF n = 0 THEN 0 ELSE c + n - i

\* re.findall(pattern, text): the non-overlapping matches, left to right
RECURSIVE FindAll(_, _, _)
FindAll(s, i, pat) ==
    LET starts == {j \in i..Len(s) : MatchLen(s, j, pat) > 0}
    IN IF starts = {} THEN <<>>
       ELSE LET j == Least(starts)
                n == MatchLen(s, j, pat)
            IN <<SubSeq(s, j, j + n - 1)>> \o FindAll(s, j + n, pat)

_detect_youtube_urls(text) ==
    FindAll(text, 1, youtube_patterns[1]) \o FindAll(text, 1, youtube_patterns[2])
    \o FindAll(text, 1, youtube_patterns[3]) \o FindAll(text, 1, youtube_patterns[4])

(***************************************************************************)
(* Vendor parts, host content and what the formatter returns.              *)
(***************************************************************************)
NoMeta == [present |-> FALSE, fps |-> ""]
Meta(f) == [present |-> TRUE, fps |-> f]

TextPart(t) ==
    [kind |-> "text", text |-> t, uri |-> "", mime_type |-> "", data |-> "",
     video_metadata |-> NoMeta]
FileData(u, m) ==
    [kind |-> "file_data", text |-> "", uri |-> u, mime_type |-> "", data |-> "",
     video_metadata |-> m]
InlineData(mt, d, m) ==
    [kind |-> "inline_data", text |-> "", uri |-> "", mime_type |-> mt, data |-> d,
     video_metadata |-> m]

\* host content: a plain string or a sequence of items
StrContent(s) == [is_str |-> TRUE, str |-> s, items |-> <<>>]
ListContent(its) == [is_str |-> FALSE, str |-> "", items |-> its]

TextItem(t) == [type |-> "text", text |-> t, has_url |-> FALSE, url |-> "", meta |-> NoMeta]
ImageItem(u) == [type |-> "image_url", text |-> "", has_url |-> TRUE, url |-> u, meta |-> NoMeta]
ImageItemNoUrl == [type |-> "image_url", text |-> "", has_url |-> FALSE, url |-> "", meta |-> NoMeta]
VideoItem(u, m) == [type |-> "video_url", text |-> "", has_url |-> TRUE, url |-> u, meta |-> m]
OtherItem == [type |-> "audio_url", text |-> "", has_url |-> FALSE, url |-> "", meta |-> NoMeta]

\* a returned value: a bare part (shape "dict", one part) or a list of parts;
\* computed is the parts list the return statement collapsed, path the
\* return statement taken
Returned(shape, ps, computed, path) ==
    [raised |-> FALSE, error |-> "", shape |-> shape, parts |-> ps,
     computed |-> computed, path |-> path]
Raises(msg) ==
    [raised |-> TRUE, error |-> msg, shape |-> "none", parts |-> <<>>,
     computed |-> <<>>, path |-> "raise"]

\* str(e) of the ValueError of `header, data = url.split(",", 1)` without a comma
UnpackError == "not enough values to unpack (expected 2, got 1)"

\* a faulty variant: the parts list is returned whatever its length
CollapseNever(parts, empty, path) == Returned("list", parts, parts, path)

\* return parts if len(parts) > 1 else parts[0] if parts else <empty>
Collapse(parts, empty, path) ==
    IF Len(parts) > 1 THEN Returned("list", parts, parts, path)
    ELSE IF Len(parts) = 1 THEN Returned("dict", <<parts[1]>>, parts, path)
    ELSE Returned("dict", <<empty>>, parts, path)

(***************************************************************************)
(* Pipe._format_content_for_gemini of gemini_native_function.py.           *)
(***************************************************************************)
\* a faulty variant: the configured rate is attached whatever its value
AutoVideoPartAlwaysMeta(url, v) == FileData(url, Meta(v.DEFAULT_VIDEO_FPS))

\* the video part of one auto-detected URL (lines 154-164 and 203-213)
AutoVideoPart(url, v) ==
    FileData(url, IF v.DEFAULT_VIDEO_FPS # "1.0" THEN Meta(v.DEFAULT_VIDEO_FPS) ELSE NoMeta)

\* the loop `for url in youtube_urls`: one part per url, and the text left
\* after remaining_text.replace(url, "").strip() for each url in turn
RECURSIVE YoutubeLoop(_, _, _, _)
YoutubeLoop(urls, parts, remaining_text, v) ==
    IF urls = <<>> THEN [parts |-> parts, remaining_text |-> remaining_text]
    ELSE YoutubeLoop(Tail(urls), Append(parts, AutoVideoPart(Head(urls), v)),
                     Strip(Remove(remaining_text, Head(urls))), v)

\* a faulty variant: the remaining text goes before the video parts
YoutubePartsTextFirst(urls, text, v) ==
    LET r == YoutubeLoop(urls, <<>>, text, v)
    IN IF r.remaining_text # "" THEN <<TextPart(r.remaining_text)>> \o r.parts
       ELSE r.parts

\* the parts of a text with detected URLs: the video parts, then the
\* remaining text when it is not empty
YoutubeParts(urls, text, v) ==
    LET r == YoutubeLoop(urls, <<>>, text, v)
    IN IF r.remaining_text # "" THEN Append(r.parts, TextPart(r.remaining_text))
       ELSE r.parts

\* a faulty variant: the plain-text return trims the string
FormatStringTrims(s, v) ==
    LET youtube_urls == _detect_youtube_urls(s)
    IN IF youtube_urls # <<>> /\ v.ENABLE_VISION /\ v.AUTO_DETECT_YOUTUBE
       THEN Collapse(YoutubeParts(youtube_urls, s, v), TextPart(s), "str_youtube")
       ELSE Returned("dict", <<TextPart(Strip(s))>>, <<TextPart(Strip(s))>>, "str_plain")

\* lines 145-177: a plain string
FormatString(s, v) ==
    LET youtube_urls == _detect_youtube_urls(s)
    IN IF youtube_urls # <<>> /\ v.ENABLE_VISION /\ v.AUTO_DETECT_YOUTUBE
       THEN Collapse(YoutubeParts(youtube_urls, s, v), TextPart(s), "str_youtube")
       ELSE Returned("dict", <<TextPart(s)>>, <<TextPart(s)>>, "str_plain")

\* a faulty variant: the video branch is missing a placeholder and passes the URL on
NoVisionItemPartsKeepsVideo(item) ==
    IF item.type = "text" THEN <<TextPart(item.text)>>
    ELSE IF item.type = "image_url"
         THEN <<TextPart("[Image content not processed - vision disabled]")>>
    ELSE IF item.type = "video_url"
         THEN <<FileData(item.url, item.meta)>>
    ELSE <<>>

\* lines 184-190: one item with vision disabled
NoVisionItemParts(item) ==
    IF item.type = "text" THEN <<TextPart(item.text)>>
    ELSE IF item.type = "image_url"
         THEN <<TextPart("[Image content not processed - vision disabled]")>>
    ELSE IF item.type = "video_url"
         THEN <<TextPart("[Video content not processed - vision disabled]")>>
    ELSE <<>>

\* header, data = url.split(",", 1); mime_type = header.split(";")[0].split(":")[1]
\* (called only on a url that holds a comma)
DataUriHeader(url) == SubSeq(url, 1, FindFrom(url, ",", 1) - 1)
DataUriData(url) == SubSeq(url, FindFrom(url, ",", 1) + 1, Len(url))
DataUriMime(url) == SecondField(BeforeFirst(DataUriHeader(url), ";"), ":")

\* whether decoding the data URI raises: the unpacking of a one-element
\* split, or the [1] of a header without ':'
DataUriRaises(url) ==
    \/ ~Contains(url, ",")
    \/ ~Contains(BeforeFirst(DataUriHeader(url), ";"), ":")

\* lines 194-287: one item with vision enabled
VisionItemParts(item, v) ==
    IF item.type = "text"
    THEN LET youtube_urls == _detect_youtube_urls(item.text)
         IN IF youtube_urls # <<>> /\ v.AUTO_DETECT_YOUTUBE
            THEN YoutubeParts(youtube_urls, item.text, v)
            ELSE <<TextPart(item.text)>>
    ELSE IF item.type = "image_url" /\ item.has_url
    THEN IF StartsWith(item.url, "data:image")
         THEN IF DataUriRaises(item.url) THEN <<TextPart("[Error processing image]")>>
              ELSE <<InlineData(DataUriMime(item.url), DataUriData(item.url), NoMeta)>>
         ELSE <<TextPart("[Image URL: " \o item.url \o "]")>>
    ELSE IF item.type = "video_url" /\ item.has_url
    THEN IF Contains(item.url, "youtube.com/watch") \/ Contains(item.url, "youtu.be/")
         THEN <<FileData(item.url, item.meta)>>
         ELSE IF StartsWith(item.url, "data:video")
         THEN IF DataUriRaises(item.url) THEN <<TextPart("[Error processing video]")>>
              ELSE <<InlineData(DataUriMime(item.url), DataUriData(item.url), item.meta)>>
         ELSE <<TextPart("[Video URL: " \o item.url \o "]")>>
    ELSE <<>>

\* the loops `for item in content`: the parts of the items, in item order
RECURSIVE NoVisionParts(_)
NoVisionParts(items) ==
    IF items = <<>> THEN <<>>
    ELSE NoVisionItemParts(Head(items)) \o NoVisionParts(Tail(items))

\* a faulty variant: each item's parts are inserted at the front of the list
RECURSIVE VisionPartsNewestFirst(_, _)
VisionPartsNewestFirst(items, v) ==
    IF items = <<>> THEN <<>>
    ELSE VisionPartsNewestFirst(Tail(items), v) \o VisionItemParts(Head(items), v)

RECURSIVE VisionParts(_, _)
VisionParts(items, v) ==
    IF items = <<>> THEN <<>>
    ELSE VisionItemParts(Head(items), v) \o VisionParts(Tail(items), v)

FormatFunction(c, v) ==
    IF c.is_str THEN FormatString(c.str, v)
    ELSE IF ~v.ENABLE_VISION
         THEN Collapse(NoVisionParts(c.items), TextPart(""), "novision")
    ELSE Collapse(VisionParts(c.items, v), TextPart(""), "items")

(***************************************************************************)
(* Pipe._format_content_for_gemini of gemini_native_complete.py.           *)
(***************************************************************************)
\* lines 110-128: one item; the data URI is decoded outside any try
CompleteItemRaises(item) ==
    /\ item.type = "image_url" /\ item.has_url
    /\ StartsWith(item.url, "data:image")
    /\ DataUriRaises(item.url)

CompleteItemParts(item) ==
    IF item.type = "text" THEN <<TextPart(item.text)>>
    ELSE IF item.type = "image_url" /\ item.has_url
    THEN IF StartsWith(item.url, "data:image")
         THEN <<InlineData(DataUriMime(item.url), DataUriData(item.url), NoMeta)>>
         ELSE <<TextPart("[Image URL: " \o item.url \o "]")>>
    ELSE <<>>

RECURSIVE CompleteParts(_)
CompleteParts(items) ==
    IF items = <<>> THEN <<>>
    ELSE CompleteItemParts(Head(items)) \o CompleteParts(Tail(items))

FormatComplete(c) ==
    IF c.is_str THEN Returned("dict", <<TextPart(c.str)>>, <<TextPart(c.str)>>, "str_plain")
    ELSE IF \E i \in 1..Len(c.items) : CompleteItemRaises(c.items[i])
         THEN Raises(UnpackError)
    ELSE Collapse(CompleteParts(c.items), TextPart(""), "items")

\* the formatter of the running variant
_format_content_for_gemini(var, c, v) ==
    IF var = "function" THEN FormatFunction(c, v) ELSE FormatComplete(c)

(***************************************************************************)
(* Pipe._convert_role (both files).                                        *)
(***************************************************************************)
role_mapping == [user |-> "user", assistant |-> "model", system |-> "user"]

\* a faulty variant: role_mapping.get(role, role), an unknown role passes through
ConvertRolePassThrough(r) == IF r \in DOMAIN role_mapping THEN role_mapping[r] ELSE r

\* a faulty variant: the system entry is missing from the table and the default is "model"
ConvertRoleDefaultModel(r) ==
    IF r = "user" THEN "user" ELSE "model"

_convert_role(r) == IF r \in DOMAIN role_mapping THEN role_mapping[r] ELSE "user"

(***************************************************************************)
(* Pipe.pipe.                                                              *)
(***************************************************************************)
\* open_webui.utils.misc.pop_system_message is imported, not part of the
\* sources: a leading system message is extracted and removed, and its
\* text is what pipe formats into the synthetic turn
pop_system_message(msgs) ==
    IF msgs # <<>> /\ msgs[1].role = "system"
    THEN [system_message |-> [present |-> TRUE, text |-> msgs[1].content.str],
          messages |-> Tail(msgs)]
    ELSE [system_message |-> [present |-> FALSE, text |-> ""], messages |-> msgs]

\* `if system_message:` - neither None nor empty
Truthy(sm) == sm.present /\ sm.text # ""

\* the credential check: lines 297 (function) and 136 (complete)
KeyRejected(var, key) ==
    IF var = "function" THEN key = "" \/ Strip(key) = ""
    ELSE key = "" \/ key = "Your API Key Here"

KeyErrorMsg ==
    "Error: GEMINI_API_KEY is required. Please set your Gemini API key in the function settings."

\* repr() of a str without quotes or backslashes, as str(dict) renders it
PyRepr(s) == "'" \o s \o "'"

\* str(content) of a part dict, keys in insertion order
PyStrMeta(m) == IF m.present THEN ", 'video_metadata': {'fps': " \o m.fps \o "}" ELSE ""

PyStr(part) ==
    IF part.kind = "text" THEN "{'text': " \o PyRepr(part.text) \o "}"
    ELSE IF part.kind = "file_data"
    THEN "{'file_data': {'file_uri': " \o PyRepr(part.uri) \o "}"
         \o PyStrMeta(part.video_metadata) \o "}"
    ELSE "{'inline_data': {'mime_type': " \o PyRepr(part.mime_type)
         \o ", 'data': " \o PyRepr(part.data) \o "}"
         \o PyStrMeta(part.video_metadata) \o "}"

\* "Ensure content is in parts format": lines 339-344 (function), 172-177 (complete)
EnsureParts(c) ==
    IF c.shape = "dict" /\ c.parts[1].kind = "text" THEN <<c.parts[1]>>
    ELSE IF c.shape = "list" THEN c.parts
    ELSE <<TextPart(PyStr(c.parts[1]))>>

Turn(r, ps) == [role |-> r, parts |-> ps]

\* the message of the except clause: lines 383 (function) and 216 (complete)
ExceptMsg(var, e) ==
    IF var = "function" THEN "Error processing request: " \o e ELSE "Error: " \o e

NoContent == Returned("none", <<>>, <<>>, "none")
NoSystem == [present |-> FALSE, text |-> ""]

\* a faulty variant: the synthetic turn carries the system text without its prefix
SystemTurnsNoPrefix(sm) ==
    IF Truthy(sm) THEN <<Turn("user", <<TextPart(sm.text)>>)>> ELSE <<>>

\* lines 327-331 (function), 160-164 (complete): the synthetic leading turn
SystemTurns(sm) ==
    IF Truthy(sm) THEN <<Turn("user", <<TextPart("System: " \o sm.text)>>)>> ELSE <<>>

\* the body's model is "x/gemini-1.5-flash": lines 316 (function), 154 (complete)
model_name == "gemini-1.5-flash"

\* {"type": "status", "data": {"description": d, "done": done}}
Event(d, done) == [type |-> "status", description |-> d, done |-> done]

\* `if __event_emitter__: await __event_emitter__(...)` for each of es
Emit(evs, es) == IF emitter THEN evs \o es ELSE evs

\* the descriptions of the request-start and pre-send events
StartMsg(var) ==
    IF var = "function" THEN "Processing request with native Gemini API..."
    ELSE "Processing request..."
SendMsg(var) ==
    IF var = "function" THEN "Sending request to Gemini " \o model_name \o "..."
    ELSE "Sending request to native Gemini API..."

\* pipe is entered: the credential is checked before anything else, and
\* the request-start event is emitted when it passes
PipeEnter ==
    /\ pc = "enter"
    /\ IF KeyRejected(variant, valves.GEMINI_API_KEY)
       THEN /\ pc' = "done" /\ result' = KeyErrorMsg
            /\ events' = Emit(events, <<Event(KeyErrorMsg, TRUE)>>)
       ELSE /\ pc' = "pop" /\ result' = result
            /\ events' = Emit(events, <<Event(StartMsg(variant), FALSE)>>)
    /\ UNCHANGED <<variant, valves, body, system_message, messages, idx, role,
                   content, gemini_contents, transport, unitVars, netVars, toolVars>>

\* the system message is popped and, when truthy, becomes the first turn
PopSystem ==
    /\ pc = "pop"
    /\ LET r == pop_system_message(body.messages)
       IN /\ system_message' = r.system_message
          /\ messages' = r.messages
          /\ gemini_contents' = SystemTurns(r.system_message)
    /\ idx' = 0
    /\ pc' = "loop"
    /\ UNCHANGED <<variant, valves, body, role, content, transport, result, events,
                   unitVars, netVars, toolVars>>

\* one iteration of `for message in messages`
LoopMessage ==
    /\ pc = "loop" /\ idx < Len(messages)
    /\ LET message == messages[idx + 1]
           c == _format_content_for_gemini(variant, message.content, valves)
       IN /\ ~c.raised
          /\ role' = _convert_role(message.role)
          /\ content' = c
          /\ gemini_contents' =
               Append(gemini_contents, Turn(_convert_role(message.role), EnsureParts(c)))
    /\ idx' = idx + 1
    /\ UNCHANGED <<variant, valves, body, pc, system_message, messages, transport,
                   result, events, unitVars, netVars, toolVars>>

\* the formatter raises inside the loop: the except clause of pipe answers
LoopRaises ==
    /\ pc = "loop" /\ idx < Len(messages)
    /\ LET message == messages[idx + 1]
           c == _format_content_for_gemini(variant, message.content, valves)
       IN /\ c.raised
          /\ role' = _convert_role(message.role)
          /\ result' = ExceptMsg(variant, c.error)
          /\ events' = Emit(events, <<Event(ExceptMsg(variant, c.error), TRUE)>>)
    /\ pc' = "done"
    /\ UNCHANGED <<variant, valves, body, system_message, messages, idx, content,
                   gemini_contents, transport, unitVars, netVars, toolVars>>

\* the loop is over: the pre-send event is emitted and the request goes to
\* the transport the stream flag selects
Dispatch ==
    /\ pc = "loop" /\ idx = Len(messages)
    /\ events' = Emit(events, <<Event(SendMsg(variant), FALSE)>>)
    /\ transport' = IF body.stream THEN "streamGenerateContent" ELSE "generateContent"
    /\ pc' = "sent"
    /\ UNCHANGED <<variant, valves, body, system_message, messages, idx, role,
                   content, gemini_contents, result, unitVars, netVars, toolVars>>

(***************************************************************************)
(* Request bodies and configurations.                                      *)
(***************************************************************************)
Msg(r, c) == [role |-> r, content |-> c]

PngUri == "data:image/png;base64,iVBO"
MalformedUri == "data:image/png;base64"

\* the messages request bodies are made of
BodyMessages ==
    { Msg("system", StrContent("Be brief")),
      Msg("system", StrContent("")),
      Msg("user", StrContent("Hello")),
      Msg("user", StrContent("https://youtu.be/abc123")),
      Msg("user", StrContent("Check this https://youtu.be/abc123 out")),
      Msg("assistant", StrContent("Hi there")),
      Msg("tool", StrContent("42")),
      Msg("user", ListContent(<<ImageItem(PngUri)>>)),
      Msg("user", ListContent(<<TextItem("Look"), ImageItem(PngUri)>>)),
      Msg("user", ListContent(<<ImageItem(MalformedUri), TextItem("Look")>>)) }

RECURSIVE SeqsUpTo(_, _)
SeqsUpTo(S, n) ==
    IF n = 0 THEN {<<>>}
    ELSE LET shorter == SeqsUpTo(S, n - 1)
         IN shorter \cup {Append(q, x) : q \in {t \in shorter : Len(t) = n - 1}, x \in S}

Bodies == [messages : SeqsUpTo(BodyMessages, MaxMsgs), stream : BOOLEAN]

FunctionValves ==
    [GEMINI_API_KEY : {"", "   ", "Your API Key Here", "AIza"}, ENABLE_VISION : BOOLEAN,
     AUTO_DETECT_YOUTUBE : BOOLEAN, DEFAULT_VIDEO_FPS : {"1.0", "2.0"}]

\* the complete variant has the credential only; the other fields are unread
CompleteValves ==
    [GEMINI_API_KEY : {"", "   ", "Your API Key Here", "AIza"}, ENABLE_VISION : {TRUE},
     AUTO_DETECT_YOUTUBE : {TRUE}, DEFAULT_VIDEO_FPS : {"1.0"}]

Configs ==
    {<<"function", v>> : v \in FunctionValves} \cup {<<"complete", v>> : v \in CompleteValves}

NoBody == [messages |-> <<>>, stream |-> FALSE]

\* an optional string: Python's None, or the string s
None == [is_none |-> TRUE, str |-> ""]
Some(s) == [is_none |-> FALSE, str |-> s]

\* no method of Tools is running
NoToolCall ==
    /\ tool_fn = "none"
    /\ youtube_url = ""
    /\ video_id = None
    /\ attempt = 0
    /\ metadata = None
    /\ direct = None
    /\ gemini_analysis = None
    /\ transcript = ""
    /\ thumbnail_base64 = None
    /\ summary = ""
    /\ calls = <<>>
    /\ tool_result = ""
NoResponse == [fails |-> "none", error |-> "", status |-> 0, text |-> ""]
NoCall == [fn |-> "none", content |-> StrContent(""), role |-> ""]

Init ==
    /\ \E cfg \in Configs : variant = cfg[1] /\ valves = cfg[2]
    /\ body \in Bodies
    /\ pc = "enter"
    /\ system_message = NoSystem
    /\ messages = <<>>
    /\ idx = 0
    /\ role = ""
    /\ content = NoContent
    /\ gemini_contents = <<>>
    /\ transport = "none"
    /\ result = ""
    /\ u_in = NoCall
    /\ u_out = [role |-> "", ret |-> NoContent]
    /\ posted = 0
    /\ response = NoResponse
    /\ wire = ""
    /\ buffer = ""
    /\ chunks = <<>>
    /\ emitter \in BOOLEAN
    /\ events = <<>>
    /\ requests = <<>>
    /\ NoToolCall

Next ==
    \/ PipeEnter
    \/ PopSystem
    \/ LoopMessage
    \/ LoopRaises
    \/ Dispatch

Spec == Init /\ [][Next]_vars

(***************************************************************************)
(* Direct calls of the two pure methods, on inputs drawn from bounded      *)
(* sets: the specification SpecUnit.                                       *)
(***************************************************************************)
Segments ==
    { " ", "Check this ", " out",
      "https://youtu.be/abc123", "https://youtu.be/abc",
      "https://www.youtube.com/watch?v=dQw4", "http://youtube.com/embed/e_1" }

RECURSIVE Concat(_)
Concat(q) == IF q = <<>> THEN "" ELSE Head(q) \o Concat(Tail(q))

Strings == {Concat(q) : q \in SeqsUpTo(Segments, MaxSegs)}

JpegUri == "data:image/jpeg;base64,/9j/4A=="
Mp4Uri == "data:video/mp4;base64,AAAA"

Items ==
    { TextItem("Hi"), TextItem(""), TextItem("see https://youtu.be/abc123"),
      TextItem("https://youtube.com/v/v-9"),
      ImageItem(PngUri), ImageItem(JpegUri), ImageItem(MalformedUri),
      ImageItem("https://example.com/a.png"), ImageItemNoUrl,
      VideoItem("https://www.youtube.com/watch?v=dQw4", NoMeta),
      VideoItem("https://youtu.be/abc123", Meta("5.0")),
      VideoItem("https://www.youtube.com/embed/e_1", NoMeta),
      VideoItem(Mp4Uri, Meta("2.0")), VideoItem("data:video/mp4", NoMeta),
      VideoItem("https://example.com/v.mp4", NoMeta),
      OtherItem }

Contents ==
    {StrContent(t) : t \in Strings} \cup {ListContent(q) : q \in SeqsUpTo(Items, MaxItems)}

Roles == {"user", "assistant", "system", "tool", "function", ""}

UnitConfigs ==
    {cfg \in Configs : cfg[2].GEMINI_API_KEY = "AIza"}

InitUnit ==
    /\ \E cfg \in UnitConfigs : variant = cfg[1] /\ valves = cfg[2]
    /\ \/ \E c \in Contents : u_in = [fn |-> "format", content |-> c, role |-> "user"]
       \/ \E r \in Roles : u_in = [fn |-> "role", content |-> StrContent(""), role |-> r]
    /\ pc = "call"
    /\ body = NoBody
    /\ system_message = NoSystem
    /\ messages = <<>>
    /\ idx = 0
    /\ role = ""
    /\ content = NoContent
    /\ gemini_contents = <<>>
    /\ transport = "none"
    /\ result = ""
    /\ u_out = [role |-> "", ret |-> NoContent]
    /\ posted = 0
    /\ response = NoResponse
    /\ wire = ""
    /\ buffer = ""
    /\ chunks = <<>>
    /\ emitter = FALSE
    /\ events = <<>>
    /\ requests = <<>>
    /\ NoToolCall

\* self._format_content_for_gemini(content, role)
CallFormat ==
    /\ pc = "call" /\ u_in.fn = "format"
    /\ u_out' = [role |-> "", ret |-> _format_content_for_gemini(variant, u_in.content, valves)]
    /\ pc' = "returned"
    /\ UNCHANGED <<variant, valves, pipeVars, u_in, toolVars>>

\* self._convert_role(role)
CallConvertRole ==
    /\ pc = "call" /\ u_in.fn = "role"
    /\ u_out' = [role |-> _convert_role(u_in.role), ret |-> NoContent]
    /\ pc' = "returned"
    /\ UNCHANGED <<variant, valves, pipeVars, u_in, toolVars>>

NextUnit ==
    \/ CallFormat
    \/ CallConvertRole

SpecUnit == InitUnit /\ [][NextUnit]_vars

(***************************************************************************)
(* What the upstream answers, and json.loads on it.                        *)
(***************************************************************************)
\* the decoded value of a response: a JSON object with or without
\* "candidates", each candidate with or without "content" and "parts", each
\* part with or without "text"; or a JSON value that is no object
JPart(has_text, t) == [has_text |-> has_text, text |-> t]
JCandidate(has_content, has_parts, ps) ==
    [has_content |-> has_content, has_parts |-> has_parts, parts |-> ps]
JObject(has_candidates, cs) ==
    [is_object |-> TRUE, has_candidates |-> has_candidates, candidates |-> cs]
JScalar == [is_object |-> FALSE, has_candidates |-> FALSE, candidates |-> <<>>]

HiText ==
    "{\"candidates\":[{\"content\":{\"parts\":[{\"text\":\"Hi there\"}]}}]}"
HelText ==
    "{\"candidates\":[{\"content\":{\"parts\":[{\"text\":\"Hel\"}]}}]}"
LoText ==
    "{\"candidates\":[{\"content\":{\"parts\":[{\"text\":\"lo\"}]}}]}"
MultiText ==
    "{\"candidates\":[{\"content\":{\"parts\":[{\"text\":\"a\"},{\"functionCall\":{}},{\"text\":\"b\"}]}},{\"content\":{\"parts\":[{\"text\":\"z\"}]}}]}"
NoTextText ==
    "{\"candidates\":[{\"content\":{\"parts\":[{\"functionCall\":{}}]}}]}"
EmptyPartsText ==
    "{\"candidates\":[{\"content\":{\"parts\":[]}}]}"
NoPartsText ==
    "{\"candidates\":[{\"content\":{\"role\":\"model\"}}]}"
NoContentText ==
    "{\"candidates\":[{\"finishReason\":\"SAFETY\"}]}"
EmptyCandidatesText ==
    "{\"candidates\":[]}"
NoCandidatesText ==
    "{\"usageMetadata\":{}}"
NullText ==
    "null"
TruncatedText ==
    "{\"candidates\":["
HtmlText ==
    "<html>Bad Gateway</html>"

\* json.loads on the JSON texts of the model
json_documents ==
    (HiText :> JObject(TRUE, <<JCandidate(TRUE, TRUE, <<JPart(TRUE, "Hi there")>>)>>))
    @@
    (HelText :> JObject(TRUE, <<JCandidate(TRUE, TRUE, <<JPart(TRUE, "Hel")>>)>>))
    @@
    (LoText :> JObject(TRUE, <<JCandidate(TRUE, TRUE, <<JPart(TRUE, "lo")>>)>>))
    @@
    (MultiText :> JObject(TRUE, <<JCandidate(TRUE, TRUE, <<JPart(TRUE, "a"), JPart(FALSE, ""), JPart(TRUE, "b")>>), JCandidate(TRUE, TRUE, <<JPart(TRUE, "z")>>)>>))
    @@
    (NoTextText :> JObject(TRUE, <<JCandidate(TRUE, TRUE, <<JPart(FALSE, "")>>)>>))
    @@
    (EmptyPartsText :> JObject(TRUE, <<JCandidate(TRUE, TRUE, <<>>)>>))
    @@
    (NoPartsText :> JObject(TRUE, <<JCandidate(TRUE, FALSE, <<>>)>>))
    @@
    (NoContentText :> JObject(TRUE, <<JCandidate(FALSE, FALSE, <<>>)>>))
    @@
    (EmptyCandidatesText :> JObject(TRUE, <<>>))
    @@
    (NoCandidatesText :> JObject(FALSE, <<>>))
    @@
    (NullText :> JScalar)

\* str(e) of the JSONDecodeError for a text that is no JSON
json_errors ==
    (TruncatedText :> "Expecting value: line 1 column 16 (char 15)")

\* json.loads(s): white space around the document is skipped; a text that
\* is none of the documents is no JSON
json_loads(s) ==
    IF Strip(s) \in DOMAIN json_documents
    THEN [ok |-> TRUE, data |-> json_documents[Strip(s)], error |-> ""]
    ELSE [ok |-> FALSE, data |-> JScalar,
          error |-> IF s \in DOMAIN json_errors THEN json_errors[s]
                    ELSE "Expecting value: line 1 column 1 (char 0)"]

\* str(e) of the TypeError of `"candidates" in data` for data = None
TypeErrorMsg == "argument of type 'NoneType' is not iterable"

\* the statuses the upstream answers with, and f"{response.status}"
Statuses == {200, 204, 403, 500}
StatusStr == (200 :> "200") @@ (204 :> "204") @@ (403 :> "403") @@ (500 :> "500")

\* what a method returns, or the exception it raises
StrReturned(s) == [raised |-> FALSE, value |-> s, error |-> ""]
StrRaised(e) == [raised |-> TRUE, value |-> "", error |-> e]

\* `except Exception as e: return f"{prefix}{str(e)}"`
Caught(prefix, r) == IF r.raised THEN StrReturned(prefix \o r.error) ELSE r

(***************************************************************************)
(* Pipe._handle_normal.                                                    *)
(***************************************************************************)
\* a faulty variant: the message leaves the response body out
HttpErrorMsgNoBody(var, streaming, status, text) ==
    IF var = "complete" THEN "Error: HTTP " \o StatusStr[status]
    ELSE IF streaming THEN "Gemini API Streaming Error: HTTP " \o StatusStr[status]
    ELSE "Gemini API Error: HTTP " \o StatusStr[status]

\* the message for a status that is not 200: lines 418 and 493 (function),
\* 248 and 319 (complete)
HttpErrorMsg(var, streaming, status, text) ==
    IF var = "complete" THEN "Error: HTTP " \o StatusStr[status] \o ": " \o text
    ELSE IF streaming
    THEN "Gemini API Streaming Error: HTTP " \o StatusStr[status] \o ": " \o text
    ELSE "Gemini API Error: HTTP " \o StatusStr[status] \o ": " \o text

\* response_text += part["text"] for each part with "text", in order
RECURSIVE JoinTexts(_)
JoinTexts(ps) ==
    IF ps = <<>> THEN ""
    ELSE (IF Head(ps).has_text THEN Head(ps).text ELSE "") \o JoinTexts(Tail(ps))

Sentinel == "No response generated"

\* lines 432-443: the text of the first candidate, or the sentinel
ExtractText(data) ==
    IF data.has_candidates /\ Len(data.candidates) > 0
    THEN LET candidate == data.candidates[1]
         IN IF candidate.has_content /\ candidate.has_parts
            THEN JoinTexts(candidate.parts)
            ELSE Sentinel
    ELSE Sentinel

\* the body of the try of _handle_normal for what the upstream did
NormalTry(var, o) ==
    IF o.fails = "post" THEN StrRaised(o.error)
    ELSE IF o.status # 200 THEN StrReturned(HttpErrorMsg(var, FALSE, o.status, o.text))
    ELSE LET j == json_loads(o.text)
         IN IF ~j.ok THEN StrRaised(j.error)
            ELSE IF ~j.data.is_object THEN StrRaised(TypeErrorMsg)
            ELSE StrReturned(ExtractText(j.data))

\* a faulty variant: the try has no except clause
NormalResultNoExcept(var, o) == NormalTry(var, o)

\* a faulty variant: the except clause answers with the sentinel
NormalResultSentinel(var, o) ==
    IF NormalTry(var, o).raised THEN StrReturned(Sentinel) ELSE NormalTry(var, o)

\* _handle_normal: the try and its except clause
NormalResult(var, o) == Caught("Request error: ", NormalTry(var, o))

(***************************************************************************)
(* The upstream's behaviours the model draws from.                         *)
(***************************************************************************)
MaxLines == 2     \* segments concatenated into one streamed body

\* str(e) of what session.post or iter_chunked raises: a timeout (the
\* message of asyncio.TimeoutError is empty) or a connection error
NetworkErrors == {"", "Cannot connect to host generativelanguage.googleapis.com:443"}

\* str(e) of what iter_chunked raises when the connection breaks
PayloadErrors == {"Response payload is not completed"}

PostFailures ==
    {[fails |-> "post", error |-> e, status |-> 0, text |-> ""] : e \in NetworkErrors}

Answer(status, text) == [fails |-> "none", error |-> "", status |-> status, text |-> text]

\* response bodies of the non-streaming method
NormalBodies ==
    DOMAIN json_documents \cup {HtmlText, "", TruncatedText, "Forbidden", HiText \o "\n"}

NormalOutcomes ==
    PostFailures \cup {Answer(s, t) : s \in Statuses, t \in NormalBodies}

\* pieces of an event stream: two events, a comment, an event without its
\* newline, an event that is no object
WireSegments ==
    { "data: " \o HelText \o "\n", "data: " \o LoText \o "\r\n", ": ping\n",
      "data: " \o HiText, "data: " \o NullText \o "\n" }

\* a complete response delivered as one event, terminated or not
EventWires ==
    {"data: " \o t \o "\n\n" : t \in DOMAIN json_documents}
    \cup {"data: " \o t : t \in DOMAIN json_documents}

StreamBodies ==
    {Concat(q) : q \in SeqsUpTo(WireSegments, MaxLines)} \cup EventWires

\* a few of the same, for the calls that start at pipe
FewStreamBodies ==
    { "data: " \o HelText \o "\n" \o "data: " \o LoText \o "\n",
      "data: " \o NullText \o "\n", "data: " \o NoCandidatesText }

StreamErrors ==
    PostFailures
    \cup {Answer(s, t) : s \in Statuses \ {200}, t \in {"Forbidden", ""}}

StreamOutcomes(bodies) ==
    StreamErrors \cup {Answer(200, t) : t \in bodies}

API_BASE_URL == "https://generativelanguage.googleapis.com/v1beta/models"

\* the url and the query parameters of session.post in _handle_normal
NormalRequest(key) ==
    [url |-> API_BASE_URL \o "/" \o model_name \o ":generateContent",
     params |-> ("key" :> key)]

\* the description of the event of a call that went through
NormalDoneMsg(var) ==
    IF var = "function" THEN "Request completed successfully" ELSE "Request completed"

\* a faulty variant: the except clause emits nothing
NormalEventsSilentExcept(var, o) ==
    IF NormalTry(var, o).raised THEN <<>>
    ELSE IF o.status # 200 THEN <<Event(NormalResult(var, o).value, TRUE)>>
    ELSE <<Event(NormalDoneMsg(var), TRUE)>>

\* the events of _handle_normal: the error message from the status branch
\* or the except clause, the completion otherwise
NormalEvents(var, o) ==
    IF NormalTry(var, o).raised \/ o.status # 200
    THEN <<Event(NormalResult(var, o).value, TRUE)>>
    ELSE <<Event(NormalDoneMsg(var), TRUE)>>

\* pipe awaits _handle_normal: one POST, and what it makes of the answer
HandleNormal ==
    /\ pc = "sent" /\ transport = "generateContent"
    /\ LET r == NormalResult(variant, response)
       IN /\ result' = r.value
          /\ pc' = IF r.raised THEN "raised" ELSE "done"
    /\ posted' = posted + 1
    /\ requests' = Append(requests, NormalRequest(valves.GEMINI_API_KEY))
    /\ events' = Emit(events, NormalEvents(variant, response))
    /\ UNCHANGED <<variant, valves, body, system_message, messages, idx, role,
                   content, gemini_contents, transport, unitVars, response, wire,
                   buffer, chunks, emitter, toolVars>>

(***************************************************************************)
(* Pipe._handle_streaming, consumed by the host.                           *)
(***************************************************************************)
\* a faulty variant: the loop over the parts stops at the first text
StreamTextsFirstOnly(data) ==
    IF data.has_candidates /\ Len(data.candidates) > 0
    THEN LET candidate == data.candidates[1]
             texts == SelectSeq(candidate.parts, LAMBDA p : p.has_text)
         IN IF candidate.has_content /\ candidate.has_parts /\ texts # <<>>
            THEN <<texts[1].text>>
            ELSE <<>>
    ELSE <<>>

\* lines 524-530: the texts yielded for one decoded event, in part order
StreamTexts(data) ==
    IF data.has_candidates /\ Len(data.candidates) > 0
    THEN LET candidate == data.candidates[1]
             texts == SelectSeq(candidate.parts, LAMBDA p : p.has_text)
         IN IF candidate.has_content /\ candidate.has_parts
            THEN [i \in 1..Len(texts) |-> texts[i].text]
            ELSE <<>>
    ELSE <<>>

\* line_text[6:] when line_text.startswith("data: ")
WithoutDataPrefix(line_text) ==
    IF StartsWith(line_text, "data: ") THEN SubSeq(line_text, 7, Len(line_text))
    ELSE line_text

\* what one pass yields, and the exception that ends it
Yielded(ys) == [yields |-> ys, raised |-> FALSE, error |-> ""]
YieldedThenRaised(ys, e) == [yields |-> ys, raised |-> TRUE, error |-> e]

\* lines 513-532: one complete line; only JSONDecodeError is caught here
ProcessLine(line) ==
    LET line_text == Strip(line)
        j == json_loads(WithoutDataPrefix(line_text))
    IN IF line_text = "" THEN Yielded(<<>>)
       ELSE IF ~j.ok THEN Yielded(<<>>)
       ELSE IF ~j.data.is_object THEN YieldedThenRaised(<<>>, TypeErrorMsg)
       ELSE Yielded(StreamTexts(j.data))

\* buffer.split(b"\n")
RECURSIVE SplitLines(_)
SplitLines(b) ==
    LET p == FindFrom(b, "\n", 1)
    IN IF p = 0 THEN <<b>>
       ELSE <<SubSeq(b, 1, p - 1)>> \o SplitLines(SubSeq(b, p + 1, Len(b)))

\* `for line in lines`, up to the line that raises
RECURSIVE ProcessLines(_, _)
ProcessLines(lines, ys) ==
    IF lines = <<>> THEN Yielded(ys)
    ELSE LET r == ProcessLine(Head(lines))
         IN IF r.raised THEN YieldedThenRaised(ys \o r.yields, r.error)
            ELSE ProcessLines(Tail(lines), ys \o r.yields)

AllButLast(q) == SubSeq(q, 1, Len(q) - 1)

\* a faulty variant: the unterminated tail is dropped instead of kept
StreamStepDropsTail(buf, chunk) ==
    LET b == buf \o chunk
    IN IF Contains(b, "\n")
       THEN [buffer |-> "", out |-> ProcessLines(AllButLast(SplitLines(b)), <<>>)]
       ELSE [buffer |-> b, out |-> Yielded(<<>>)]

\* lines 535-550: the residual buffer at the end of the stream; the bare
\* except swallows every exception
Residual(buf) ==
    LET j == json_loads(WithoutDataPrefix(Strip(buf)))
    IN IF buf # "" /\ j.ok /\ j.data.is_object THEN StreamTexts(j.data) ELSE <<>>

\* a faulty variant: the unterminated tail is decoded as soon as it arrives
\* and kept in the buffer as well
StreamStepDecodesTail(buf, chunk) ==
    LET lines == SplitLines(buf \o chunk)
        out == ProcessLines(AllButLast(lines), <<>>)
    IN [buffer |-> lines[Len(lines)],
        out |-> IF out.raised THEN out
                ELSE Yielded(out.yields \o Residual(lines[Len(lines)]))]

\* lines 507-532: one chunk of iter_chunked joins the buffer; the complete
\* lines are processed and the unterminated tail is kept
StreamStep(buf, chunk) ==
    LET b == buf \o chunk
    IN IF Contains(b, "\n")
       THEN LET lines == SplitLines(b)
            IN [buffer |-> lines[Len(lines)],
                out |-> ProcessLines(AllButLast(lines), <<>>)]
       ELSE [buffer |-> b, out |-> Yielded(<<>>)]

\* `except Exception as e: yield f"Stream error: {str(e)}"` around a pass
StreamCaught(out) ==
    IF out.raised THEN Yielded(Append(out.yields, "Stream error: " \o out.error))
    ELSE out

\* response.content.iter_chunked(1024)
ChunkLimit == 1024

\* the sizes of the next chunk: one byte, a few dozen bytes, or all that is
\* left, up to the limit
ChunkSizes(w) ==
    {n \in {1, 40, Len(w), ChunkLimit} : n >= 1 /\ n <= Len(w) /\ n <= ChunkLimit}

\* a faulty variant: the request has no alt parameter
StreamRequestNoAlt(key) ==
    [url |-> API_BASE_URL \o "/" \o model_name \o ":streamGenerateContent",
     params |-> ("key" :> key)]

\* the url and the query parameters of session.post in _handle_streaming
StreamRequest(key) ==
    [url |-> API_BASE_URL \o "/" \o model_name \o ":streamGenerateContent",
     params |-> ("key" :> key) @@ ("alt" :> "sse")]

\* the description of the event of a stream read to its end
StreamDoneMsg(var) ==
    IF var = "function" THEN "Streaming completed successfully" ELSE "Stream completed"

\* the event of the except clause of _handle_streaming around a pass
CaughtEvents(out) ==
    IF out.raised THEN <<Event("Stream error: " \o out.error, TRUE)>> ELSE <<>>

\* the host pulls the generator for the first time: the POST is made and
\* the status is checked
StreamOpen ==
    /\ pc = "sent" /\ transport = "streamGenerateContent"
    /\ IF response.fails = "post"
       THEN LET raised == YieldedThenRaised(<<>>, response.error)
                out == StreamCaught(raised)
            IN /\ chunks' = out.yields
               /\ events' = Emit(events, CaughtEvents(raised))
               /\ pc' = IF out.raised THEN "raised" ELSE "done"
               /\ wire' = ""
       ELSE IF response.status # 200
       THEN LET error_msg == HttpErrorMsg(variant, TRUE, response.status, response.text)
            IN /\ chunks' = <<error_msg>>
               /\ events' = Emit(events, <<Event(error_msg, TRUE)>>)
               /\ pc' = "done"
               /\ wire' = ""
       ELSE /\ chunks' = <<>>
            /\ events' = events
            /\ pc' = "streaming"
            /\ wire' = response.text
    /\ buffer' = ""
    /\ posted' = posted + 1
    /\ requests' = Append(requests, StreamRequest(valves.GEMINI_API_KEY))
    /\ UNCHANGED <<variant, valves, body, system_message, messages, idx, role,
                   content, gemini_contents, transport, result, unitVars, response,
                   emitter, toolVars>>

\* iter_chunked delivers the next chunk
StreamChunk ==
    /\ pc = "streaming" /\ wire # ""
    /\ \E n \in ChunkSizes(wire) :
          LET step == StreamStep(buffer, SubSeq(wire, 1, n))
              out == StreamCaught(step.out)
          IN /\ wire' = SubSeq(wire, n + 1, Len(wire))
             /\ buffer' = step.buffer
             /\ chunks' = chunks \o out.yields
             /\ events' = Emit(events, CaughtEvents(step.out))
             /\ pc' = IF out.raised THEN "raised"
                      ELSE IF step.out.raised THEN "done"
                      ELSE "streaming"
    /\ UNCHANGED <<variant, valves, body, system_message, messages, idx, role,
                   content, gemini_contents, transport, result, unitVars,
                   posted, response, emitter, requests, toolVars>>

\* iter_chunked raises: the connection broke or timed out
StreamBreaks ==
    /\ pc = "streaming"
    /\ \E e \in PayloadErrors :
          LET raised == YieldedThenRaised(<<>>, e)
              out == StreamCaught(raised)
          IN /\ response' = [response EXCEPT !.fails = "stream", !.error = e]
             /\ chunks' = chunks \o out.yields
             /\ events' = Emit(events, CaughtEvents(raised))
             /\ pc' = IF out.raised THEN "raised" ELSE "done"
    /\ UNCHANGED <<variant, valves, body, system_message, messages, idx, role,
                   content, gemini_contents, transport, result, unitVars,
                   posted, wire, buffer, emitter, requests, toolVars>>

\* the upstream closes the connection: the residual buffer is decoded
StreamEnd ==
    /\ pc = "streaming" /\ wire = ""
    /\ chunks' = chunks \o Residual(buffer)
    /\ events' = Emit(events, <<Event(StreamDoneMsg(variant), TRUE)>>)
    /\ pc' = "done"
    /\ UNCHANGED <<variant, valves, body, system_message, messages, idx, role,
                   content, gemini_contents, transport, result, unitVars,
                   posted, response, wire, buffer, emitter, requests, toolVars>>

(***************************************************************************)
(* The whole call, from pipe to the end of its transport: the              *)
(* specification SpecTransport.                                            *)
(***************************************************************************)
TransportConfigs ==
    {cfg \in Configs : /\ cfg[2].ENABLE_VISION /\ cfg[2].AUTO_DETECT_YOUTUBE
                       /\ cfg[2].DEFAULT_VIDEO_FPS = "1.0"}

TransportBodies ==
    [messages : { <<Msg("system", StrContent("Be brief")), Msg("user", StrContent("Hello"))>>,
                  <<Msg("user", ListContent(<<ImageItem(MalformedUri), TextItem("Look")>>))>> },
     stream : BOOLEAN]

InitTransport ==
    /\ \E cfg \in TransportConfigs : variant = cfg[1] /\ valves = cfg[2]
    /\ body \in TransportBodies
    /\ response \in IF body.stream THEN StreamOutcomes(FewStreamBodies) ELSE NormalOutcomes
    /\ pc = "enter"
    /\ system_message = NoSystem
    /\ messages = <<>>
    /\ idx = 0
    /\ role = ""
    /\ content = NoContent
    /\ gemini_contents = <<>>
    /\ transport = "none"
    /\ result = ""
    /\ u_in = NoCall
    /\ u_out = [role |-> "", ret |-> NoContent]
    /\ posted = 0
    /\ wire = ""
    /\ buffer = ""
    /\ chunks = <<>>
    /\ emitter \in BOOLEAN
    /\ events = <<>>
    /\ requests = <<>>
    /\ NoToolCall

NextTransport ==
    \/ PipeEnter
    \/ PopSystem
    \/ LoopMessage
    \/ LoopRaises
    \/ Dispatch
    \/ HandleNormal
    \/ StreamOpen
    \/ StreamChunk
    \/ StreamBreaks
    \/ StreamEnd

SpecTransport == InitTransport /\ [][NextTransport]_vars

(***************************************************************************)
(* Streaming calls on event streams drawn from a bounded set: the          *)
(* specification SpecStream.                                               *)
(***************************************************************************)
InitStream ==
    /\ \E cfg \in TransportConfigs :
          variant = cfg[1] /\ valves = cfg[2] /\ cfg[2].GEMINI_API_KEY = "AIza"
    /\ body = [messages |-> <<Msg("user", StrContent("Hello"))>>, stream |-> TRUE]
    /\ response \in {Answer(200, t) : t \in StreamBodies}
    /\ pc = "enter"
    /\ system_message = NoSystem
    /\ messages = <<>>
    /\ idx = 0
    /\ role = ""
    /\ content = NoContent
    /\ gemini_contents = <<>>
    /\ transport = "none"
    /\ result = ""
    /\ u_in = NoCall
    /\ u_out = [role |-> "", ret |-> NoContent]
    /\ posted = 0
    /\ wire = ""
    /\ buffer = ""
    /\ chunks = <<>>
    /\ emitter = TRUE
    /\ events = <<>>
    /\ requests = <<>>
    /\ NoToolCall

NextStream ==
    \/ PipeEnter
    \/ PopSystem
    \/ LoopMessage
    \/ Dispatch
    \/ StreamOpen
    \/ StreamChunk
    \/ StreamBreaks
    \/ StreamEnd

SpecStream == InitStream /\ [][NextStream]_vars

(***************************************************************************)
(* src/tool.py: Tools.get_youtube_metadata and                             *)
(* Tools.summarize_youtube_video, called by the host: the specification    *)
(* SpecTool.                                                               *)
(***************************************************************************)
\* the class [^&\n?#] of both patterns
IdStops == {"&", "\n", "?", "#"}

\* the group ([^&\n?#]+) matched at index i of s: the longest run, "" when none
GroupAt(s, i) ==
    LET stops == {j \in i..Len(s) : CharAt(s, j) \in IdStops}
    IN IF i > Len(s) THEN ""
       ELSE IF stops = {} THEN SubSeq(s, i, Len(s))
       ELSE SubSeq(s, i, Least(stops) - 1)

\* re.search of the first pattern: the group after the leftmost of
\* "youtube.com/watch?v=", "youtu.be/", "youtube.com/embed/" that a group follows
SearchDirect(s) ==
    LET after(i) ==
            IF At(s, i, "youtube.com/watch?v=") THEN i + Len("youtube.com/watch?v=")
            ELSE IF At(s, i, "youtu.be/") THEN i + Len("youtu.be/")
            ELSE IF At(s, i, "youtube.com/embed/") THEN i + Len("youtube.com/embed/")
            ELSE 0
        hits == {i \in 1..Len(s) : after(i) > 0 /\ GroupAt(s, after(i)) # ""}
    IN IF hits = {} THEN None ELSE Some(GroupAt(s, after(Least(hits))))

\* re.search of the second pattern, youtube\.com/watch\?.*v=(...): the
\* greedy .* stops at the last "v=" of the line that a group follows
SearchQuery(s) ==
    LET lit == "youtube.com/watch?"
        ends(i) ==
            {j \in (i + Len(lit))..Len(s) :
                /\ At(s, j, "v=") /\ GroupAt(s, j + 2) # ""
                /\ \A k \in (i + Len(lit))..(j - 1) : CharAt(s, k) # "\n"}
        hits == {i \in 1..Len(s) : At(s, i, lit) /\ ends(i) # {}}
    IN IF hits = {} THEN None ELSE Some(GroupAt(s, Greatest(ends(Least(hits))) + 2))

\* lines 23-34: the first pattern that matches gives the id, None when none does
extract_youtube_video_id(url) ==
    IF ~SearchDirect(url).is_none THEN SearchDirect(url) ELSE SearchQuery(url)

\* f"{x}" of an optional string
FStr(x) == IF x.is_none THEN "None" ELSE x.str

\* f"{n}" and f"{n:02d}" of a natural number
RECURSIVE Dec(_)
Dec(n) ==
    LET digit == <<"0", "1", "2", "3", "4", "5", "6", "7", "8", "9">>
    IN IF n < 10 THEN digit[n + 1] ELSE Dec(n \div 10) \o digit[(n % 10) + 1]
TwoDigits(n) == IF n < 10 THEN "0" \o Dec(n) ELSE Dec(n)

\* line 85
max_retries == 2

\* lines 90-98: the metadata pytube gives for the one video of the model;
\* views is held as the text the f-strings print
PytubeMetadata ==
    [title |-> "Never Gonna Give You Up", description |-> "Official video",
     length |-> 213, views |-> Dec(1000), author |-> "Rick Astley",
     publish_date |-> Some("2009-10-25T00:00:00"),
     thumbnail_url |-> "https://i.ytimg.com/vi/dQw4/sddefault.jpg",
     has_fallback_mode |-> FALSE, is_none |-> FALSE]

\* a faulty variant: the fallback record does not say that it is one
FallbackMetadataUnflagged(vid) ==
    [title |-> "YouTube Video",
     description |-> "Video description unavailable (using fallback method)",
     length |-> 0, views |-> "Unknown", author |-> "Unknown Channel",
     publish_date |-> None,
     thumbnail_url |-> "https://img.youtube.com/vi/" \o FStr(vid) \o "/maxresdefault.jpg",
     has_fallback_mode |-> FALSE, is_none |-> FALSE]

\* lines 110-119: the record returned when pytube failed; fallback_mode is True
FallbackMetadata(vid) ==
    [title |-> "YouTube Video",
     description |-> "Video description unavailable (using fallback method)",
     length |-> 0, views |-> "Unknown", author |-> "Unknown Channel",
     publish_date |-> None,
     thumbnail_url |-> "https://img.youtube.com/vi/" \o FStr(vid) \o "/maxresdefault.jpg",
     has_fallback_mode |-> TRUE, is_none |-> FALSE]

\* what a call of the model does: it returns a content, which may be None,
\* or raises
ModelOutcomes ==
    { [raised |-> FALSE, content |-> Some("The video is a pop song from 1987."), error |-> ""],
      [raised |-> FALSE, content |-> Some("Error handling in Go, explained in ten minutes."),
       error |-> ""],
      [raised |-> FALSE, content |-> None, error |-> ""],
      [raised |-> TRUE, content |-> None, error |-> "Connection error."] }

\* lines 138-183: analyze_video_with_gemini for what its model call did
analyze_video_with_gemini(o) ==
    IF o.raised THEN Some("Error analyzing video with Gemini: " \o o.error) ELSE o.content

\* what get_youtube_transcript returns (lines 36-76): the text, or an error string
TranscriptOutcomes ==
    { "We're no strangers to love", "Error getting transcript: No transcripts available",
      "Error getting transcript: Subtitles are disabled for this video" }

\* what encode_image_from_url returns (lines 121-132): the base64 text, or None
EncodeOutcomes == {Some("/9j/4A=="), None}

\* the four header lines of both summaries (lines 213-216 and 322-325)
SummaryHeader(m) ==
    "**Video:** " \o m.title \o "\n**Channel:** " \o m.author
    \o "\n**Duration:** " \o Dec(m.length \div 60) \o ":" \o TwoDigits(m.length % 60)
    \o "\n**Views:** " \o m.views

\* lines 210-225: the summary of a direct analysis
VideoSummary(m, analysis) ==
    Strip("\n# YouTube Video Summary (Video Analysis)\n\n" \o SummaryHeader(m)
          \o "\n\n---\n\n" \o analysis \o "\n\n---\n"
          \o "*Analysis completed using Gemini 2.5 Flash Video Understanding*\n            ")

\* lines 319-335: the summary of the fallback path
FallbackSummaryText(m, text, thumbnail_analysis) ==
    Strip("\n# YouTube Video Summary (Fallback Method)\n\n" \o SummaryHeader(m)
          \o "\n\n---\n\n" \o text \o thumbnail_analysis \o "\n\n---\n"
          \o "*Analysis completed using Gemini 2.5 Flash (Fallback: Transcript + Thumbnail)*\n            ")

\* one call out of the module: what was called, with what, and whether it
\* gave a value (ok) or raised or gave an error value
Call(fn, arg, ok) == [fn |-> fn, arg |-> arg, ok |-> ok]

toolLocals == <<gemini_analysis, transcript, thumbnail_base64, summary>>

\* get_youtube_metadata is entered (line 80)
MetadataEnter ==
    /\ pc = "tool_call" /\ tool_fn = "get_youtube_metadata"
    /\ video_id' = extract_youtube_video_id(youtube_url)
    /\ pc' = "metadata"
    /\ UNCHANGED <<variant, valves, pipeVars, unitVars, tool_fn, youtube_url, attempt,
                   metadata, direct, toolLocals, calls, tool_result>>

\* summarize_youtube_video is entered (lines 197-199); when there is an id
\* it calls get_youtube_metadata
SummarizeEnter ==
    /\ pc = "tool_call" /\ tool_fn = "summarize_youtube_video"
    /\ video_id' = extract_youtube_video_id(youtube_url)
    /\ IF video_id'.is_none \/ video_id'.str = ""
       THEN pc' = "tool_done" /\ tool_result' = "Error: Invalid YouTube URL format."
       ELSE pc' = "metadata" /\ tool_result' = tool_result
    /\ UNCHANGED <<variant, valves, pipeVars, unitVars, tool_fn, youtube_url, attempt,
                   metadata, direct, toolLocals, calls>>

\* where get_youtube_metadata returns to
AfterMetadata == IF tool_fn = "summarize_youtube_video" THEN "analyze" ELSE "tool_done"

\* lines 86-119: one pass of `for attempt in range(max_retries)`; pytube
\* gives the metadata or raises, and the last failure is raised to the
\* outer except clause, which returns the fallback record
FetchAttempt ==
    /\ pc = "metadata" /\ attempt < max_retries
    /\ \E fetched \in BOOLEAN :
          /\ calls' = Append(calls, Call("pytube.YouTube", youtube_url, fetched))
          /\ IF fetched
             THEN metadata' = PytubeMetadata /\ pc' = AfterMetadata /\ attempt' = attempt
             ELSE IF attempt = max_retries - 1
             THEN /\ metadata' = FallbackMetadata(video_id)
                  /\ pc' = AfterMetadata /\ attempt' = attempt
             ELSE metadata' = metadata /\ pc' = pc /\ attempt' = attempt + 1
    /\ UNCHANGED <<variant, valves, pipeVars, unitVars, tool_fn, youtube_url, video_id,
                   direct, toolLocals, tool_result>>

\* lines 206-225: the direct analysis, and the summary when its text does
\* not start with "Error"; None has no startswith
AnalyzeVideo ==
    /\ pc = "analyze"
    /\ \E o \in ModelOutcomes :
          /\ direct' = o
          /\ gemini_analysis' = analyze_video_with_gemini(o)
          /\ calls' = Append(calls, Call("chat.completions.create", "video", ~o.raised))
    /\ IF gemini_analysis'.is_none
       THEN pc' = "tool_raised" /\ tool_result' = tool_result
       ELSE IF ~StartsWith(gemini_analysis'.str, "Error")
       THEN /\ pc' = "tool_done"
            /\ tool_result' = VideoSummary(metadata, gemini_analysis'.str)
       ELSE pc' = "fallback" /\ tool_result' = tool_result
    /\ UNCHANGED <<variant, valves, pipeVars, unitVars, tool_fn, youtube_url, video_id,
                   attempt, metadata, transcript, thumbnail_base64, summary>>

\* lines 232-240: the transcript, replaced by a notice when it is an error
\* string, and the first download of the thumbnail
GetTranscript ==
    /\ pc = "fallback"
    /\ \E t \in TranscriptOutcomes :
          LET got == Call("get_youtube_transcript", video_id.str, ~StartsWith(t, "Error"))
          IN /\ transcript' =
                   IF StartsWith(t, "Error")
                   THEN "Transcript not available for this video. Analysis will be based on thumbnail and metadata only."
                   ELSE t
             /\ IF metadata.thumbnail_url # ""
                THEN \E b \in EncodeOutcomes :
                        /\ thumbnail_base64' = b
                        /\ calls' = calls \o <<got, Call("requests.get", metadata.thumbnail_url,
                                                          ~b.is_none)>>
                ELSE /\ thumbnail_base64' = None
                     /\ calls' = Append(calls, got)
    /\ pc' = "summarize"
    /\ UNCHANGED <<variant, valves, pipeVars, unitVars, tool_fn, youtube_url, video_id,
                   attempt, metadata, direct, gemini_analysis, summary, tool_result>>

\* lines 266-287 and 319-338: the text-only model call; its summary is the
\* result when the metadata is the fallback record
FallbackSummary ==
    /\ pc = "summarize"
    /\ \E o \in ModelOutcomes :
          /\ calls' = Append(calls, Call("chat.completions.create", "text", ~o.raised))
          /\ IF o.raised
             THEN /\ tool_result' = "Error during analysis: " \o o.error
                  /\ summary' = summary
                  /\ pc' = "tool_done"
             ELSE /\ summary' = FStr(o.content)
                  /\ IF metadata.thumbnail_url # "" /\ ~metadata.has_fallback_mode
                     THEN pc' = "thumbnail" /\ tool_result' = tool_result
                     ELSE /\ pc' = "tool_done"
                          /\ tool_result' = FallbackSummaryText(metadata, FStr(o.content), "")
    /\ UNCHANGED <<variant, valves, pipeVars, unitVars, tool_fn, youtube_url, video_id,
                   attempt, metadata, direct, gemini_analysis, transcript,
                   thumbnail_base64>>

\* lines 288-338: the thumbnail is downloaded again and, when that worked,
\* analysed by the model
ThumbnailAnalysis ==
    /\ pc = "thumbnail"
    /\ \E b \in EncodeOutcomes :
          /\ thumbnail_base64' = b
          /\ IF b.is_none
             THEN /\ calls' = Append(calls, Call("requests.get", metadata.thumbnail_url, FALSE))
                  /\ tool_result' = FallbackSummaryText(metadata, summary, "")
             ELSE \E o \in ModelOutcomes :
                     /\ calls' = calls \o
                           <<Call("requests.get", metadata.thumbnail_url, TRUE),
                             Call("chat.completions.create", "thumbnail", ~o.raised)>>
                     /\ tool_result' =
                           IF o.raised THEN "Error during analysis: " \o o.error
                           ELSE FallbackSummaryText(metadata, summary,
                                    "\n\n**Thumbnail Analysis:**\n" \o FStr(o.content))
    /\ pc' = "tool_done"
    /\ UNCHANGED <<variant, valves, pipeVars, unitVars, tool_fn, youtube_url, video_id,
                   attempt, metadata, direct, gemini_analysis, transcript, summary>>

ToolUrls ==
    { "https://www.youtube.com/watch?v=dQw4&t=1", "https://youtu.be/abc123?t=5",
      "https://www.youtube.com/watch?feature=share&v=dQw4#top",
      "https://www.youtube.com/embed/e_1", "https://youtu.be/",
      "https://example.com/clip", "" }

InitTool ==
    /\ variant = "function"
    /\ valves = [GEMINI_API_KEY |-> "AIza", ENABLE_VISION |-> TRUE,
                 AUTO_DETECT_YOUTUBE |-> TRUE, DEFAULT_VIDEO_FPS |-> "1.0"]
    /\ pc = "tool_call"
    /\ tool_fn \in {"get_youtube_metadata", "summarize_youtube_video"}
    /\ youtube_url \in ToolUrls
    /\ video_id = None
    /\ attempt = 0
    /\ metadata = None
    /\ direct = None
    /\ gemini_analysis = None
    /\ transcript = ""
    /\ thumbnail_base64 = None
    /\ summary = ""
    /\ calls = <<>>
    /\ tool_result = ""
    /\ body = NoBody
    /\ system_message = NoSystem
    /\ messages = <<>>
    /\ idx = 0
    /\ role = ""
    /\ content = NoContent
    /\ gemini_contents = <<>>
    /\ transport = "none"
    /\ result = ""
    /\ u_in = NoCall
    /\ u_out = [role |-> "", ret |-> NoContent]
    /\ posted = 0
    /\ response = NoResponse
    /\ wire = ""
    /\ buffer = ""
    /\ chunks = <<>>
    /\ emitter = FALSE
    /\ events = <<>>
    /\ requests = <<>>

NextTool ==
    \/ MetadataEnter
    \/ SummarizeEnter
    \/ FetchAttempt
    \/ AnalyzeVideo
    \/ GetTranscript
    \/ FallbackSummary
    \/ ThumbnailAnalysis

SpecTool == InitTool /\ [][NextTool]_vars

(***************************************************************************)
(* The claims.                                                             *)
(***************************************************************************)
\* the turn the loop appended last, once it has appended one
LastTurn == gemini_contents[Len(gemini_contents)]

\* C1: every turn pipe builds for a message carries exactly the parts the
\* formatter produced: a bare part of any kind becomes the one-element
\* sequence holding it, never a text part rendering it as a string.
C1_PartsAreFormatterParts ==
    (pc = "loop" /\ idx >= 1) => LastTurn.parts = content.parts

\* C2: every turn of the contents array has role user or model.
C2_TurnRoles ==
    \A i \in 1..Len(gemini_contents) : gemini_contents[i].role \in {"user", "model"}

\* a request with a system message that is not leading and an unknown role
\* has been turned into contents
C2_Witness ==
    /\ pc = "sent"
    /\ Len(gemini_contents) = 2
    /\ \E i, j \in 1..Len(messages) :
          messages[i].role = "tool" /\ messages[j].role = "system"

\* C3: _convert_role answers for every role: user for user, model for
\* assistant, user for system and user for anything else.
C3_ConvertRoleTable ==
    (pc = "returned" /\ u_in.fn = "role") =>
        u_out.role = CASE u_in.role = "user" -> "user"
                       [] u_in.role = "assistant" -> "model"
                       [] u_in.role = "system" -> "user"
                       [] OTHER -> "user"

C3_Witness ==
    pc = "returned" /\ u_in.fn = "role" /\ u_in.role = "system" /\ u_out.role = "user"

\* the turn pipe builds for message m
TurnOf(m) ==
    Turn(_convert_role(m.role),
         EnsureParts(_format_content_for_gemini(variant, m.content, valves)))

\* C4: with a non-empty system message extracted, the first turn is the
\* user turn holding "System: " + its text and the turns after it are those
\* of the remaining messages, one each, in order; with no system message
\* extracted the turns are those of the messages, one each. It holds of the
\* turns built so far at every point of the loop, and of all of them once
\* the request is handed to the transport.
C4_SystemTurnFirst ==
    (pc \in {"loop", "sent"} \/ (pc = "done" /\ result # KeyErrorMsg)) =>
        LET extracted == system_message.present /\ system_message.text # ""
            off == IF extracted THEN 1 ELSE 0
        IN /\ Len(gemini_contents) = idx + off
           /\ pc = "sent" => idx = Len(messages)
           /\ extracted =>
                 /\ gemini_contents[1] =
                       [role |-> "user",
                        parts |-> <<TextPart("System: " \o system_message.text)>>]
                 /\ body.messages[1].role = "system"
                 /\ body.messages[1].content.str = system_message.text
                 /\ messages = Tail(body.messages)
           /\ ~system_message.present => messages = body.messages
           /\ \A i \in 1..idx : gemini_contents[i + off] = TurnOf(messages[i])

C4_Witness ==
    /\ pc = "sent"
    /\ system_message.present /\ system_message.text = "Be brief"
    /\ Len(messages) = 1 /\ Len(gemini_contents) = 2

\* the string handed to the formatter and whether it has a YouTube URL
HasYoutubeUrl(s) == _detect_youtube_urls(s) # <<>>
AutoDetectOn == variant = "function" /\ valves.AUTO_DETECT_YOUTUBE
FormatReturned == pc = "returned" /\ u_in.fn = "format"

\* C5: a plain string without a YouTube URL, and any plain string when
\* auto-detection is off, comes back as one bare text part holding the
\* string unchanged.
C5_PlainStringIsOneText ==
    (/\ FormatReturned
     /\ u_in.content.is_str
     /\ (~HasYoutubeUrl(u_in.content.str) \/ ~AutoDetectOn)) =>
        /\ ~u_out.ret.raised
        /\ u_out.ret.shape = "dict"
        /\ u_out.ret.parts = <<TextPart(u_in.content.str)>>

\* an untrimmed string with a URL, formatted with auto-detection off
C5_Witness ==
    /\ FormatReturned
    /\ variant = "function" /\ ~valves.AUTO_DETECT_YOUTUBE /\ valves.ENABLE_VISION
    /\ u_in.content = StrContent(" https://youtu.be/abc123 ")
    /\ u_out.ret.parts = <<TextPart(" https://youtu.be/abc123 ")>>

\* the text left when the one occurrence of url is cut out of s
CutOut(s, url) ==
    LET p == FindFrom(s, url, 1)
    IN SubSeq(s, 1, p - 1) \o SubSeq(s, p + Len(url), Len(s))

\* the parts returned are one fileData part for url, then one text part
\* holding residual when residual is not empty
FileThenText(ret, url, residual) ==
    /\ ~ret.raised
    /\ Len(ret.parts) = IF residual = "" THEN 1 ELSE 2
    /\ ret.parts[1].kind = "file_data" /\ ret.parts[1].uri = url
    /\ residual # "" => ret.parts[2] = TextPart(residual)

\* C6 as stated: a plain string with exactly one YouTube URL, auto-detection
\* on, gives one fileData part for the URL and then, when the text with the
\* URL removed is not empty, one text part holding that text.
C6_OneUrlAsStated ==
    (/\ FormatReturned
     /\ u_in.content.is_str
     /\ AutoDetectOn
     /\ Len(_detect_youtube_urls(u_in.content.str)) = 1) =>
        LET url == _detect_youtube_urls(u_in.content.str)[1]
        IN FileThenText(u_out.ret, url, CutOut(u_in.content.str, url))

\* C6 amended: with auto-detection and ENABLE_VISION both on, the text
\* part holds the text with the URL removed and then trimmed of whitespace
\* at both ends, and is there when that trimmed text is not empty.
C6_OneUrlTrimmed ==
    (/\ FormatReturned
     /\ u_in.content.is_str
     /\ AutoDetectOn /\ valves.ENABLE_VISION
     /\ Len(_detect_youtube_urls(u_in.content.str)) = 1) =>
        LET url == _detect_youtube_urls(u_in.content.str)[1]
        IN FileThenText(u_out.ret, url, Strip(CutOut(u_in.content.str, url)))

C6_Witness ==
    /\ FormatReturned
    /\ AutoDetectOn /\ valves.ENABLE_VISION
    /\ u_in.content = StrContent("Check this https://youtu.be/abc123 out")
    /\ u_out.ret.shape = "list"
    /\ u_out.ret.parts[1].uri = "https://youtu.be/abc123"
    /\ u_out.ret.parts[2] = TextPart("Check this  out")

VisionOff == variant = "function" /\ ~valves.ENABLE_VISION

\* what a vision-disabled item must become
Placeholder(item) ==
    CASE item.type = "text" -> TextPart(item.text)
      [] item.type = "image_url" ->
            TextPart("[Image content not processed - vision disabled]")
      [] item.type = "video_url" ->
            TextPart("[Video content not processed - vision disabled]")

\* C7: with ENABLE_VISION off every returned part is a text part, for a
\* string and for items alike; an items content of text, image_url and
\* video_url items gives one part per item, the text of a text item
\* unchanged and the fixed placeholder for an image or a video.
C7_VisionOffTextOnly ==
    (FormatReturned /\ VisionOff) =>
        /\ ~u_out.ret.raised
        /\ \A j \in 1..Len(u_out.ret.parts) : u_out.ret.parts[j].kind = "text"
        /\ (/\ ~u_in.content.is_str
            /\ u_in.content.items # <<>>
            /\ \A i \in 1..Len(u_in.content.items) :
                  u_in.content.items[i].type \in {"text", "image_url", "video_url"}) =>
              /\ Len(u_out.ret.parts) = Len(u_in.content.items)
              /\ \A i \in 1..Len(u_in.content.items) :
                    u_out.ret.parts[i] = Placeholder(u_in.content.items[i])

C7_Witness ==
    /\ FormatReturned /\ VisionOff
    /\ u_in.content =
          ListContent(<<ImageItem(PngUri), VideoItem("https://youtu.be/abc123", Meta("5.0"))>>)
    /\ Len(u_out.ret.parts) = 2

\* a URI of the form data:image/<mime>;base64,<data>, its segment between
\* "data:" and the first ';', and what follows its first comma
SemiAt(u) == FindFrom(u, ";", 1)
IsValidImageUri(u) ==
    /\ StartsWith(u, "data:image/")
    /\ SemiAt(u) > Len("data:image/") + 1
    /\ At(u, SemiAt(u), ";base64,")
    /\ FindFrom(u, ",", 1) = SemiAt(u) + Len(";base64")
    /\ FindFrom(u, ":", 1) = Len("data:") /\ FindFrom(u, ":", Len("data:") + 1) = 0
    /\ Len(u) > SemiAt(u) + Len(";base64")
HeaderSegment(u) == SubSeq(u, Len("data:") + 1, SemiAt(u) - 1)
Payload(u) == SubSeq(u, SemiAt(u) + Len(";base64,"), Len(u))

MultimodalOn == variant = "complete" \/ valves.ENABLE_VISION

\* C8: for every image_url item with a valid data:image URI (multimodal
\* on) the formatter emits an inlineData part whose mime_type is the header
\* segment and whose data is the payload, so that
\* "data:" + mime_type + ";base64," + data is the URI again.
C8_ValidDataUriDecoded ==
    (FormatReturned /\ ~u_in.content.is_str /\ MultimodalOn) =>
        \A i \in 1..Len(u_in.content.items) :
            LET item == u_in.content.items[i]
            IN (item.type = "image_url" /\ item.has_url /\ IsValidImageUri(item.url)) =>
                  \E j \in 1..Len(u_out.ret.parts) :
                      LET p == u_out.ret.parts[j]
                      IN /\ p.kind = "inline_data"
                         /\ p.mime_type = HeaderSegment(item.url)
                         /\ p.data = Payload(item.url)
                         /\ "data:" \o p.mime_type \o ";base64," \o p.data = item.url

\* an image_url item whose data:image URL cannot be decoded
IsMalformedImage(item) ==
    /\ item.type = "image_url" /\ item.has_url
    /\ StartsWith(item.url, "data:image")
    /\ (FindFrom(item.url, ",", 1) = 0 \/ FindFrom(item.url, ":", 1) = 0)

\* C9: a malformed data:image item becomes the text part
\* "[Error processing image]" in the turn of its message, next to the parts
\* of the other items, and the request does not fail: pipe never answers
\* with the message of its except clause for the decoding error.
C9_MalformedImageTolerated ==
    /\ result # ExceptMsg(variant, UnpackError)
    /\ (pc \in {"loop", "sent"} /\ MultimodalOn) =>
          \A k \in 1..idx :
              (/\ ~messages[k].content.is_str
               /\ \E i \in 1..Len(messages[k].content.items) :
                     IsMalformedImage(messages[k].content.items[i])) =>
                  \E j \in 1..Len(gemini_contents[k + Len(gemini_contents) - idx].parts) :
                      gemini_contents[k + Len(gemini_contents) - idx].parts[j]
                          = TextPart("[Error processing image]")

\* C10: on every return path that collapses a parts list, two or more
\* parts come back as the list, one part comes back bare, and no part comes
\* back as a bare text part holding the empty string.
C10_Collapsing ==
    (FormatReturned /\ ~u_out.ret.raised) =>
        LET ret == u_out.ret
        IN /\ Len(ret.computed) >= 2 => ret.shape = "list" /\ ret.parts = ret.computed
           /\ Len(ret.computed) = 1 => ret.shape = "dict" /\ ret.parts = ret.computed
           /\ Len(ret.computed) = 0 => ret.shape = "dict" /\ ret.parts = <<TextPart("")>>

\* a content whose items produce no part at all
C10_Witness ==
    /\ FormatReturned
    /\ u_in.content = ListContent(<<OtherItem, ImageItemNoUrl>>)
    /\ valves.ENABLE_VISION
    /\ u_out.ret.computed = <<>>
    /\ u_out.ret.shape = "dict" /\ u_out.ret.parts = <<TextPart("")>>

\* the parts list the formatter computes for a content of the one item
PartsOfItem(item) ==
    _format_content_for_gemini(variant, ListContent(<<item>>), valves).computed

RECURSIVE PartsInItemOrder(_)
PartsInItemOrder(items) ==
    IF items = <<>> THEN <<>>
    ELSE PartsOfItem(Head(items)) \o PartsInItemOrder(Tail(items))

\* C11: the parts computed for an item sequence are the parts of its
\* items laid end to end in item order: every part of item i comes before
\* every part of item j when i < j.
C11_ItemOrderPreserved ==
    (FormatReturned /\ ~u_in.content.is_str /\ ~u_out.ret.raised) =>
        u_out.ret.computed = PartsInItemOrder(u_in.content.items)

\* a text item that gives two parts, followed by an image
C11_Witness ==
    /\ FormatReturned
    /\ variant = "function" /\ valves.ENABLE_VISION /\ valves.AUTO_DETECT_YOUTUBE
    /\ u_in.content = ListContent(<<TextItem("see https://youtu.be/abc123"), ImageItem(PngUri)>>)
    /\ Len(u_out.ret.parts) = 3
    /\ u_out.ret.parts[1].kind = "file_data"
    /\ u_out.ret.parts[2] = TextPart("see")
    /\ u_out.ret.parts[3].kind = "inline_data"

\* the call answered with the configuration error without any POST
ConfigurationError ==
    /\ posted = 0
    /\ pc # "enter" => (pc = "done" /\ result = KeyErrorMsg)

\* C13: with the credential missing or empty, whitespace-only included,
\* pipe returns the 'GEMINI_API_KEY is required' message and no HTTP
\* request is issued, whatever the body.
C13_MissingKeyRejected ==
    (valves.GEMINI_API_KEY = "" \/ Strip(valves.GEMINI_API_KEY) = "") =>
        ConfigurationError

\* C14: with the credential still 'Your API Key Here', pipe reports the
\* configuration error and does no network I/O, as for a missing credential.
C14_PlaceholderKeyRejected ==
    valves.GEMINI_API_KEY = "Your API Key Here" => ConfigurationError

\* the upstream answered the one POST of the call and the call is over
Answered == pc = "done" /\ posted = 1 /\ response.fails = "none"
NonStreaming == transport = "generateContent"
Streaming == transport = "streamGenerateContent"

\* s is an upstream error string carrying the status and the raw body
IsHttpError(s) ==
    \/ StartsWith(s, "Gemini API Error: HTTP ")
    \/ StartsWith(s, "Gemini API Streaming Error: HTTP ")
    \/ StartsWith(s, "Error: HTTP ")
CarriesStatusAndBody(s) ==
    Contains(s, StatusStr[response.status]) /\ Contains(s, response.text)

\* the answer was turned into the upstream error string, the only chunk
\* of a streaming call
UpstreamErrorReported ==
    /\ NonStreaming => IsHttpError(result) /\ CarriesStatusAndBody(result)
    /\ Streaming =>
          /\ Len(chunks) = 1
          /\ IsHttpError(chunks[1]) /\ CarriesStatusAndBody(chunks[1])

\* the answer was not treated as an upstream error
DecodedAsSuccess ==
    /\ NonStreaming => ~IsHttpError(result)
    /\ Streaming => \A i \in 1..Len(chunks) : ~IsHttpError(chunks[i])

\* C15 as stated: every status outside 2xx gives the error string with the
\* status and the raw body and no exception; every 2xx status has its body
\* decoded as a successful response.
C15_StatusClassAsStated ==
    /\ (posted = 1 /\ response.fails = "none") => pc # "raised"
    /\ Answered =>
          IF response.status \in 200..299 THEN DecodedAsSuccess
          ELSE UpstreamErrorReported

\* C15 amended: every status other than 200, the other 2xx statuses
\* included, gives the error string with the status and the raw body and no
\* exception; status 200 has its body decoded as a successful response.
C15_Only200IsSuccess ==
    /\ (posted = 1 /\ response.fails = "none") => pc # "raised"
    /\ Answered =>
          IF response.status = 200 THEN DecodedAsSuccess
          ELSE UpstreamErrorReported

\* the 403 of end-to-end scenario 2
C15_Witness ==
    /\ Answered /\ NonStreaming /\ variant = "function"
    /\ response.status = 403 /\ response.text = "Forbidden"
    /\ result = "Gemini API Error: HTTP 403: Forbidden"

\* the text fields of the parts of the first candidate, in part order;
\* none when there is no first candidate or it has no parts
TextFields(d) ==
    IF /\ d.has_candidates /\ d.candidates # <<>>
       /\ d.candidates[1].has_content /\ d.candidates[1].has_parts
    THEN LET with_text == SelectSeq(d.candidates[1].parts, LAMBDA q : q.has_text)
         IN [i \in 1..Len(with_text) |-> with_text[i].text]
    ELSE <<>>

\* the response has no candidates or no parts: candidates absent or empty,
\* content or parts absent, or no parts in the list
NothingGenerated(d) ==
    \/ ~d.has_candidates \/ d.candidates = <<>>
    \/ ~d.candidates[1].has_content \/ ~d.candidates[1].has_parts
    \/ d.candidates[1].parts = <<>>

\* the call got a 200 whose body is a JSON object
GotObject ==
    /\ Answered /\ NonStreaming /\ response.status = 200
    /\ Strip(response.text) \in DOMAIN json_documents
    /\ json_documents[Strip(response.text)].is_object

\* C16: a successful non-streaming response gives the text fields of
\* candidates[0].content.parts joined in order, and the sentinel
\* "No response generated" when it has no candidates or no parts, an empty
\* parts list included.
C16_TextOrSentinel ==
    GotObject =>
        LET d == json_documents[Strip(response.text)]
        IN result = IF NothingGenerated(d) THEN "No response generated"
                    ELSE Concat(TextFields(d))

\* the call got a 200 whose body is no JSON
GotUndecodable ==
    /\ posted = 1 /\ response.fails = "none" /\ NonStreaming
    /\ response.status = 200
    /\ Strip(response.text) \notin DOMAIN json_documents

\* C17 as stated: a 200 whose body is no JSON gives the sentinel text.
C17_DecodeErrorIsSentinel ==
    GotUndecodable => pc = "done" /\ result = "No response generated"

\* C17 amended: a 200 whose body is no JSON gives the error string
\* "Request error: " followed by the decoder's message, which is neither
\* the sentinel nor an exception.
C17_DecodeErrorIsRequestError ==
    GotUndecodable =>
        /\ pc = "done"
        /\ StartsWith(result, "Request error: Expecting value: line 1 column ")
        /\ result # "No response generated"

\* a gateway's HTML page answered with status 200
C17_Witness ==
    /\ GotUndecodable /\ pc = "done"
    /\ response.text = "<html>Bad Gateway</html>"
    /\ result = "Request error: Expecting value: line 1 column 1 (char 0)"

\* the bytes of the body delivered so far, its complete lines and the
\* piece after its last newline
Delivered == SubSeq(response.text, 1, Len(response.text) - Len(wire))
CompleteLines == AllButLast(SplitLines(Delivered))
Unterminated == SplitLines(Delivered)[Len(SplitLines(Delivered))]

\* what one line contributes: with the optional "data: " prefix stripped,
\* the text fields of the event when it decodes to an object, nothing when
\* it does not decode
ChunksOfLine(line) ==
    LET t == WithoutDataPrefix(Strip(line))
    IN IF t \in DOMAIN json_documents /\ json_documents[t].is_object
       THEN TextFields(json_documents[t])
       ELSE <<>>

RECURSIVE ChunksOfLines(_)
ChunksOfLines(lines) ==
    IF lines = <<>> THEN <<>>
    ELSE ChunksOfLine(Head(lines)) \o ChunksOfLines(Tail(lines))

\* a line that decodes to a JSON value that is no object
IsScalarLine(line) ==
    /\ WithoutDataPrefix(Strip(line)) \in DOMAIN json_documents
    /\ ~json_documents[WithoutDataPrefix(Strip(line))].is_object

\* the stream is being decoded, or was decoded to its end, without a
\* network failure and without a line that is no object
DecodingLines ==
    /\ pc \in {"streaming", "done"} /\ Streaming
    /\ response.fails = "none" /\ response.status = 200
    /\ \A i \in 1..Len(CompleteLines) : ~IsScalarLine(CompleteLines[i])

OneEvent(t) == response.text \in {"data: " \o t \o "\n\n", "data: " \o t}

ObjectTexts == {t \in DOMAIN json_documents : json_documents[t].is_object}

\* the stream of one event has been decoded to its end
EventDecoded(t) ==
    /\ pc = "done" /\ Streaming /\ response.fails = "none" /\ response.status = 200
    /\ OneEvent(t)

\* C19 as stated: for every complete response, one with no candidates or
\* no parts included, the chunks of the streaming decoder joined are the
\* string the non-streaming decoder returns.
C19_StreamEqualsNormalAsStated ==
    \A t \in ObjectTexts :
        EventDecoded(t) =>
            Concat(chunks) = NormalResult(variant, Answer(200, t)).value

\* C19 amended: when candidates[0].content.parts is there the chunks joined
\* are the string the non-streaming decoder returns; otherwise the
\* streaming decoder yields nothing and the non-streaming decoder returns
\* the sentinel.
C19_StreamEqualsNormalWithParts ==
    \A t \in ObjectTexts :
        EventDecoded(t) =>
            LET d == json_documents[t]
                normal == NormalResult(variant, Answer(200, t)).value
            IN IF /\ d.has_candidates /\ d.candidates # <<>>
                  /\ d.candidates[1].has_content /\ d.candidates[1].has_parts
               THEN Concat(chunks) = normal
               ELSE chunks = <<>> /\ normal = "No response generated"

\* one event whose first candidate has two text parts around a part
\* without text, and a second candidate
C19_Witness ==
    /\ EventDecoded(MultiText)
    /\ chunks = <<"a", "b">>

\* C20: no exception leaves pipe or its generator: the call never ends
\* raised, and each failure ends it with its error string: the
\* configuration error, the formatter's or the decoder's exception, the
\* upstream error, the network failure or timeout, as the result of a
\* non-streaming call and the last chunk of a streaming one.
C20_NoExceptionEscapes ==
    /\ pc # "raised"
    /\ pc = "done" =>
          /\ posted = 0 => StartsWith(result, "Error")
          /\ (posted = 1 /\ NonStreaming /\ response.fails = "post") =>
                result = "Request error: " \o response.error
          /\ (posted = 1 /\ NonStreaming /\ response.fails = "none"
              /\ response.status # 200) => IsHttpError(result)
          /\ (posted = 1 /\ NonStreaming /\ response.fails = "none"
              /\ response.status = 200
              /\ (Strip(response.text) \notin DOMAIN json_documents
                  \/ Strip(response.text) = NullText)) =>
                StartsWith(result, "Request error: ")
          /\ (posted = 1 /\ Streaming /\ response.fails # "none") =>
                /\ chunks # <<>>
                /\ chunks[Len(chunks)] = "Stream error: " \o response.error
          /\ (posted = 1 /\ Streaming /\ response.fails = "none"
              /\ response.status # 200) => IsHttpError(chunks[Len(chunks)])

\* a request that timed out
C20_Witness ==
    /\ pc = "done" /\ posted = 1 /\ NonStreaming
    /\ response.fails = "post" /\ response.error = ""
    /\ result = "Request error: "

\* C21: a call makes at most one POST, whatever the upstream does with it:
\* no state has a second request, after an upstream error, a decoding
\* error or a network failure included. The request goes to
\* streamGenerateContent with alt=sse when the body's stream flag is true
\* and to generateContent without an alt parameter otherwise.
C21_OnePostOnSelectedTransport ==
    /\ Len(requests) <= 1
    /\ posted = Len(requests)
    /\ requests # <<>> =>
          LET q == requests[1]
              method == SubSeq(q.url, Len(API_BASE_URL \o "/" \o model_name) + 1, Len(q.url))
          IN IF body.stream
             THEN /\ method = ":streamGenerateContent"
                  /\ "alt" \in DOMAIN q.params /\ q.params["alt"] = "sse"
             ELSE /\ method = ":generateContent"
                  /\ "alt" \notin DOMAIN q.params

\* a streaming call answered with a 500: the call is over after one POST
C21_Witness ==
    /\ pc = "done" /\ body.stream
    /\ response.fails = "none" /\ response.status = 500
    /\ Len(requests) = 1
    /\ requests[1].params["alt"] = "sse"

\* C22: with a status callback, a call that has ended has emitted exactly
\* one event with done = TRUE and it is the last one; a call that passed
\* the credential check has the request-start event first; when the POST
\* has been made the pre-send event was emitted before it, right after the
\* request-start event.
C22_OneFinalStatusEvent ==
    emitter =>
        /\ pc = "done" =>
              /\ events # <<>>
              /\ events[Len(events)].done
              /\ \A i \in 1..(Len(events) - 1) : ~events[i].done
        /\ (pc # "enter" /\ ~KeyRejected(variant, valves.GEMINI_API_KEY)) =>
              /\ events # <<>>
              /\ events[1] = Event(StartMsg(variant), FALSE)
        /\ \A i \in 1..Len(events) :
              events[i] = Event(SendMsg(variant), FALSE) => i = 2
        /\ posted > 0 =>
              /\ Len(events) >= 2
              /\ events[2] = Event(SendMsg(variant), FALSE)

\* a stream read to its end: request start, pre-send, completion
C22_Witness ==
    /\ emitter /\ pc = "done" /\ Streaming /\ variant = "function"
    /\ response.fails = "none" /\ response.status = 200
    /\ chunks = <<"Hel", "lo">>
    /\ events = <<Event("Processing request with native Gemini API...", FALSE),
                  Event("Sending request to Gemini gemini-1.5-flash...", FALSE),
                  Event("Streaming completed successfully", TRUE)>>

\* the formatter returned for a plain string or for text items only, so
\* that every fileData part it made comes from auto-detection
OnlyTextFormatted ==
    /\ FormatReturned /\ ~u_out.ret.raised
    /\ \/ u_in.content.is_str
       \/ \A i \in 1..Len(u_in.content.items) : u_in.content.items[i].type = "text"

\* C23: a fileData part made by auto-detection carries video_metadata.fps
\* equal to DEFAULT_VIDEO_FPS when that value is not 1.0, and no
\* video_metadata at all when it is 1.0.
C23_FpsOnlyWhenNotDefault ==
    OnlyTextFormatted =>
        \A i \in 1..Len(u_out.ret.parts) :
            LET part == u_out.ret.parts[i]
            IN part.kind = "file_data" =>
                  IF valves.DEFAULT_VIDEO_FPS = "1.0"
                  THEN ~part.video_metadata.present
                  ELSE /\ part.video_metadata.present
                       /\ part.video_metadata.fps = valves.DEFAULT_VIDEO_FPS

\* a URL detected in a text item with the rate set to 2.0
C23_Witness ==
    /\ OnlyTextFormatted /\ variant = "function"
    /\ valves.DEFAULT_VIDEO_FPS = "2.0"
    /\ u_in.content = ListContent(<<TextItem("see https://youtu.be/abc123")>>)
    /\ u_out.ret.parts = <<FileData("https://youtu.be/abc123", Meta("2.0")), TextPart("see")>>

\* the indices of s covered by the matches of pattern pat from index i on
RECURSIVE MatchedFrom(_, _, _)
MatchedFrom(s, i, pat) ==
    LET starts == {j \in i..Len(s) : MatchLen(s, j, pat) > 0}
    IN IF starts = {} THEN {}
       ELSE LET j == Least(starts)
                n == MatchLen(s, j, pat)
            IN (j..(j + n - 1)) \cup MatchedFrom(s, j + n, pat)

\* the indices of s inside a match of one of the four patterns
Matched(s) == UNION {MatchedFrom(s, 1, youtube_patterns[k]) : k \in 1..4}

\* s with exactly the matched substrings removed
Unmatched(s) ==
    Concat([i \in 1..Len(s) |-> IF i \in Matched(s) THEN "" ELSE CharAt(s, i)])

\* C25: for a plain string with detected URLs the formatter gives one
\* fileData part per match, in detection order, then a text part holding
\* the string with exactly the matched substrings removed and its ends
\* trimmed, when that residual is not empty: nothing outside a match is
\* removed and nothing of a match remains.
C25_MatchesRemoved ==
    (/\ FormatReturned
     /\ u_in.content.is_str
     /\ AutoDetectOn /\ valves.ENABLE_VISION
     /\ _detect_youtube_urls(u_in.content.str) # <<>>) =>
        LET urls == _detect_youtube_urls(u_in.content.str)
            residual == Strip(Unmatched(u_in.content.str))
            parts == u_out.ret.parts
        IN /\ ~u_out.ret.raised
           /\ Len(parts) = Len(urls) + (IF residual = "" THEN 0 ELSE 1)
           /\ \A i \in 1..Len(urls) :
                 i <= Len(parts) => parts[i].kind = "file_data" /\ parts[i].uri = urls[i]
           /\ residual # "" => parts[Len(parts)] = TextPart(residual)

\* the formatter returned, with multimodal support on, for a content of
\* one video_url item that has a url
OneVideoFormatted ==
    /\ FormatReturned /\ variant = "function" /\ valves.ENABLE_VISION
    /\ ~u_in.content.is_str /\ Len(u_in.content.items) = 1
    /\ u_in.content.items[1].type = "video_url" /\ u_in.content.items[1].has_url

\* a URI of the form data:video/<mime>;base64,<data>
IsValidVideoUri(u) ==
    /\ StartsWith(u, "data:video/")
    /\ SemiAt(u) > Len("data:video/") + 1
    /\ At(u, SemiAt(u), ";base64,")
    /\ FindFrom(u, ",", 1) = SemiAt(u) + Len(";base64")

\* C26: a video_url item gives exactly one part: fileData(url) with the
\* caller's video_metadata unchanged when the url is a YouTube URL in a form
\* the text scan recognises (watch, youtu.be, embed, v/); otherwise
\* inlineData(mime, payload) with the caller's video_metadata for a
\* data:video URI; otherwise a text placeholder naming the url.
C26_VideoItemClassified ==
    OneVideoFormatted =>
        LET item == u_in.content.items[1]
            parts == u_out.ret.parts
        IN /\ ~u_out.ret.raised
           /\ Len(parts) = 1
           /\ IF HasYoutubeUrl(item.url)
              THEN parts[1] = FileData(item.url, item.meta)
              ELSE IF StartsWith(item.url, "data:video")
              THEN IF IsValidVideoUri(item.url)
                   THEN parts[1] = InlineData(HeaderSegment(item.url), Payload(item.url),
                                              item.meta)
                   ELSE parts[1].kind = "text"
              ELSE parts[1].kind = "text" /\ Contains(parts[1].text, item.url)

\* the fetches get_youtube_metadata has made through pytube
PytubeCalls == SelectSeq(calls, LAMBDA c : c.fn = "pytube.YouTube")

\* C27: get_youtube_metadata never raises and fetches at most twice; no
\* fetch follows one that succeeded; what it returns is the metadata of the
\* fetch that succeeded, without the fallback_mode flag, or, after two
\* failed fetches, the fallback record with fallback_mode = True and the
\* thumbnail URL of the video id extracted from the URL.
C27_MetadataOrFallback ==
    /\ Len(PytubeCalls) <= 2
    /\ \A i \in 1..(Len(PytubeCalls) - 1) : ~PytubeCalls[i].ok
    /\ tool_fn = "get_youtube_metadata" => pc \in {"tool_call", "metadata", "tool_done"}
    /\ (tool_fn = "get_youtube_metadata" /\ pc = "tool_done") => ~metadata.is_none
    /\ ~metadata.is_none =>
          IF PytubeCalls[Len(PytubeCalls)].ok
          THEN metadata = PytubeMetadata /\ ~metadata.has_fallback_mode
          ELSE /\ Len(PytubeCalls) = 2
               /\ metadata.has_fallback_mode
               /\ metadata.thumbnail_url =
                     "https://img.youtube.com/vi/"
                     \o FStr(extract_youtube_video_id(youtube_url))
                     \o "/maxresdefault.jpg"

\* both fetches failed for a watch URL with a second query parameter
C27_Witness ==
    /\ tool_fn = "get_youtube_metadata" /\ pc = "tool_done"
    /\ youtube_url = "https://www.youtube.com/watch?v=dQw4&t=1"
    /\ Len(PytubeCalls) = 2
    /\ metadata.has_fallback_mode
    /\ metadata.thumbnail_url = "https://img.youtube.com/vi/dQw4/maxresdefault.jpg"

\* summarize_youtube_video has made its direct analysis call
DirectCalled == tool_fn = "summarize_youtube_video" /\ "raised" \in DOMAIN direct

\* the calls made after the direct analysis call
FallbackCalls ==
    SelectSeq(calls, LAMBDA c : c.fn \in {"get_youtube_transcript", "requests.get"}
                                \/ (c.fn = "chat.completions.create" /\ c.arg # "video"))

\* C28: without a video id summarize_youtube_video returns
\* 'Error: Invalid YouTube URL format.' and has called nothing; with one,
\* the fallback path is entered exactly when the direct analysis call
\* failed: a direct analysis that succeeded, whatever its text, is returned
\* in the 'Video Analysis' summary and no fallback call is made.
C28_FallbackIffDirectFailed ==
    /\ (tool_fn = "summarize_youtube_video" /\ pc # "tool_call"
        /\ extract_youtube_video_id(youtube_url).is_none) =>
          /\ pc = "tool_done"
          /\ tool_result = "Error: Invalid YouTube URL format."
          /\ calls = <<>>
    /\ (DirectCalled /\ ~direct.raised /\ ~direct.content.is_none) =>
          /\ pc = "tool_done"
          /\ StartsWith(tool_result, "# YouTube Video Summary (Video Analysis)")
          /\ Contains(tool_result, direct.content.str)
          /\ FallbackCalls = <<>>
    /\ (DirectCalled /\ direct.raised) =>
          /\ pc \in {"fallback", "summarize", "thumbnail", "tool_done"}
          /\ pc # "fallback" => FallbackCalls # <<>>
          /\ ~StartsWith(tool_result, "# YouTube Video Summary (Video Analysis)")

\* what the decoder yields for the bytes b arriving in a single read: the
\* lines before the last newline, up to one that raises, then the piece
\* after the last newline at the end of the stream
WholeBody(b) ==
    LET lines == SplitLines(b)
        out == ProcessLines(AllButLast(lines), <<>>)
    IN IF out.raised THEN StreamCaught(out).yields
       ELSE out.yields \o Residual(lines[Len(lines)])

\* a streamed answer with status 200 is being read, or was read to its end
\* or to a line that raised, and the connection did not break
ReadingBody ==
    /\ pc \in {"streaming", "done"} /\ Streaming
    /\ response.fails = "none" /\ response.status = 200

\* C24: what the streaming decoder yields does not depend on how the body
\* is cut into reads: at every point of the stream the chunks yielded so
\* far, followed by what a single read of the bytes still buffered and
\* still to come would yield, are what a single read of the whole body
\* yields, and so are the chunks of a stream that has ended; no line is
\* lost or decoded twice and the unterminated last line is decoded once,
\* at the end.
C24_CutsDoNotMatter ==
    ReadingBody =>
        IF pc = "streaming"
        THEN chunks \o WholeBody(buffer \o wire) = WholeBody(response.text)
        ELSE chunks = WholeBody(response.text)

\* the first event was yielded and the read after it was cut inside the
\* 'data: ' prefix of the second
C24_Witness ==
    /\ ReadingBody /\ pc = "streaming"
    /\ response.text = "data: " \o HelText \o "\n" \o "data: " \o LoText \o "\r\n"
    /\ chunks = <<"Hel">>
    /\ buffer = "d"
    /\ wire # ""

====
